---- MODULE Spec2Model ----
(***************************************************************************)
(* A model of grpc-hot-mock: the stream interceptor that records every     *)
(* call in the history registry, the unknown-service handler that answers  *)
(* a call from a mock or hands it to the proxy, the proxy's two pumps, and *)
(* the descriptor registry's source store.                                 *)
(*                                                                         *)
(* Spec       one RPC from the interceptor's entry to its return, with     *)
(*            the configuration operations (RegisterMock, registration of  *)
(*            a method descriptor, Clean) and the client (cancellation)    *)
(*            running beside it.                                           *)
(* SpecIngest sequences of IngestProtoFile calls.                          *)
(***************************************************************************)
EXTENDS Integers, Sequences, FiniteSets, TLC

VARIABLES
    \* ---- the three registries and the server's construction ----
    mockRegistry,              \* mocks.DefaultRegistry.mockRegistry
    methodDescriptorRegistry,  \* defaultDescriptorRegistry.methodDescriptorRegistry
    histories,                 \* history.DefaultRegistry.histories
    p,                         \* Handler's *proxy.Proxy: TRUE when a proxy is configured
    \* ---- the call: interceptor and handler frames ----
    pc,                        \* where the call's goroutine stands
    h,                         \* StreamInterceptor's local history.History (w.history = &h)
    w,                         \* the wrappedServerStream: proxified, methodDescriptor
    hl,                        \* Handler's locals: methodDescriptor, ok, mc, hasMock
    ret,                       \* the error the handler returned to the interceptor
    stream,                    \* the underlying grpc.ServerStream, as the transport sees it
    clock,                     \* the readings of time.Now()
    crashed,                   \* the process died of an unrecovered panic
    \* ---- Proxy.Handle ----
    px,                        \* Handle's frame, the two pumps and the upstream stream
    \* ---- defaultDescriptorRegistry's sources ----
    protoFiles,                \* map filename -> content
    protoFileNames,            \* []string, the ingest order
    ingestLog,                 \* every IngestProtoFile call made so far, in order
    allFileDescriptors,        \* []protoreflect.FileDescriptor
    messageDescriptorRegistry, \* map message full name -> descriptor
    compiles,                  \* the Compile calls made so far
    compileErr,                \* what the last CompileAndRegister or RegisterProtoFile returned
    \* ---- what the callers of the registries hold ----
    registered,                \* (service, method) -> the MockConfig last given to RegisterMock
    saveLog,                   \* the entries given to SaveHistory since the last Clean
    listed,                    \* the list the last GetHistories returned to its caller
    \* ---- a reflection stream ----
    rs,                        \* ServerReflectionInfo's frame and its stream
    \* ---- the proxy's codec ----
    cx,                        \* the last call of the MultiplexCodec
    \* ---- the descriptor registry's goroutines ----
    rg,                        \* an ingest, a compilation and a reader, step by step
    hr                         \* the proto handlers' last request and the response written

vars == <<mockRegistry, methodDescriptorRegistry, histories, p, pc, h, w, hl, ret,
          stream, clock, crashed, px, protoFiles, protoFileNames, ingestLog,
          allFileDescriptors, messageDescriptorRegistry, compiles, compileErr,
          registered, saveLog, listed, rs, cx, rg, hr>>

callVars == <<pc, h, w, hl, ret, stream, clock, crashed, px>>
mockVars == <<mockRegistry, registered>>
configVars == <<mockVars, methodDescriptorRegistry, p>>
historyVars == <<histories, saveLog, listed>>
sourceVars == <<protoFiles, protoFileNames, ingestLog>>
fileVars == <<allFileDescriptors, messageDescriptorRegistry, compiles, compileErr>>
otherVars == <<cx, rg, hr>>
auxVars == <<fileVars, rs, otherVars>>

(***************************************************************************)
(* Bounds.                                                                 *)
(***************************************************************************)
\* Frames each peer of a proxied call sends at most.
MaxFrames == 2
\* IngestProtoFile calls in one behaviour of SpecIngest.
MaxIngests == 4
\* SaveHistory calls between two Clean calls of SpecHistory.
MaxSaves == 3
\* IngestProtoFile and RegisterProtoFile calls in one behaviour of SpecRegistry.
MaxSources == 3
\* Compile calls in one behaviour of SpecRegistry.
MaxCompiles == 2
\* Requests received on the reflection stream.
MaxRequests == 2
\* Bytes of a frame given to the codec, and buffers of a mem.BufferSlice.
MaxBufferLen == 2
MaxChunks == 2
\* Lookups a reader makes while the registry is written.
MaxObservations == 2
\* Ingests made while the registry is compiled and read.
MaxConcurrentIngests == 2
\* Files of one request to the proto handlers.
MaxUploadFiles == 2

(***************************************************************************)
(* Values.                                                                 *)
(***************************************************************************)
\* A Go value that may be absent (a nil pointer, a missing map entry, a failed
\* conversion) is the empty sequence, a present one the sequence of that value.
None == <<>>
Some(x) == <<x>>

\* google.golang.org/grpc/codes, the codes the program names or the transport returns.
Codes == [OK |-> 0, Canceled |-> 1, Unknown |-> 2, NotFound |-> 5,
          PermissionDenied |-> 7, Unimplemented |-> 12, Internal |-> 13,
          Unavailable |-> 14]

\* A Go map: a function whose domain is the set of its keys.  m[k] = v, and the
\* two-valued v, ok := m[k] as an optional value.
EmptyMap == [k \in {} |-> None]
MapPut(m, k, v) == [x \in DOMAIN m \cup {k} |-> IF x = k THEN v ELSE m[x]]
MapGet(m, k) == IF k \in DOMAIN m THEN Some(m[k]) ELSE None

\* A string that the program takes apart or puts together is the sequence of its
\* pieces, and + is \o: the name "example.Greeter" is <<"example.Greeter">>, the
\* path "/example.Greeter/SayHello" is <<"/", "example.Greeter", "/", "SayHello">>.
Name(s) == <<s>>

\* The path of the call.
Service == Name("example.Greeter")
MethodNames == {Name("SayHello")}
MethodPath(service, method) == <<"/">> \o service \o <<"/">> \o method
FullMethod == MethodPath(Service, Name("SayHello"))
Methods == {MethodPath(Service, m) : m \in MethodNames}

\* A method descriptor: its input and output message types.
Descriptor == [Input |-> "HelloRequest", Output |-> "HelloReply"]

\* The fields of the two message types and their zero values:
\*   message HelloRequest { string name = 1; google.protobuf.Any detail = 2; }
\*   message HelloReply   { string message = 1; int32 count = 2; }
Fields(type) == IF type = "HelloRequest" THEN {"name", "detail"} ELSE {"message", "count"}
Zero(field) == CASE field = "count" -> 0
                 [] field = "detail" -> "unset"
                 [] OTHER -> ""

(***************************************************************************)
(* The codecs.  A wire frame is named by what it holds:                    *)
(*   "hello"    field 1 = "world"                                          *)
(*   "empty"    no field at all                                            *)
(*   "any"      field 2 = an Any whose type URL names a type that only the *)
(*              descriptor registry knows (protoregistry.GlobalTypes does  *)
(*              not)                                                       *)
(*   "garbage"  bytes that are no protobuf encoding                        *)
(***************************************************************************)
Frames == {"hello", "empty", "any", "garbage"}

\* proto.Unmarshal(frame, dynamicpb.NewMessage(type)): the message, or None when the
\* bytes do not parse.  A field of another wire type is kept as an unknown field.
ProtoUnmarshal(frame, type) ==
    IF frame = "garbage" THEN None
    ELSE Some([f \in Fields(type) |->
                 CASE frame = "hello" /\ f \in {"name", "message"} -> "world"
                   [] frame = "any" /\ f = "detail" -> "unresolvable"
                   [] OTHER -> Zero(f)])

\* A marshaller that emits the unpopulated fields too.
ProtoJSONMarshalEmitUnpopulated(m) ==
    IF \E f \in DOMAIN m : f = "detail" /\ m[f] = "unresolvable" THEN None
    ELSE Some(m)

\* protojson.Marshal(m), then json.Unmarshal into a map: the JSON tree of the message,
\* which leaves out every field that holds its zero value, or None when the message
\* cannot be rendered (an Any whose type the resolver does not know).
ProtoJSONMarshal(m) ==
    IF \E f \in DOMAIN m : f = "detail" /\ m[f] = "unresolvable" THEN None
    ELSE Some([f \in {g \in DOMAIN m : m[g] # Zero(g)} |-> m[f]])

\* An unmarshaller that drops the fields the type does not have.
ProtoJSONUnmarshalDiscardUnknown(tree, type) ==
    Some([f \in Fields(type) |-> IF f \in DOMAIN tree THEN tree[f] ELSE Zero(f)])

\* json.Marshal(tree), then protojson.Unmarshal into dynamicpb.NewMessage(type): the
\* message, or None when the tree names a field the type does not have.
ProtoJSONUnmarshal(tree, type) ==
    IF DOMAIN tree \subseteq Fields(type)
    THEN Some([f \in Fields(type) |-> IF f \in DOMAIN tree THEN tree[f] ELSE Zero(f)])
    ELSE None

(***************************************************************************)
(* Errors and statuses.  A Go int is written hi * 2^32 + lo, so that the   *)
(* conversion to the 32-bit codes.Code is the low word.                    *)
(***************************************************************************)
GoInt(hi, lo) == [hi |-> hi, lo |-> lo]
IsZero(n) == n.hi = 0 /\ n.lo = 0

\* A handler that answers every configured status with UNKNOWN.
CodeOfUnknown(n) == Codes.Unknown

\* codes.Code(n): uint32(n).
CodeOf(n) == n.lo

NoErr == [kind |-> "nil", code |-> 0, msg |-> ""]
EOF == [kind |-> "EOF", code |-> 0, msg |-> "EOF"]
PlainError(msg) == [kind |-> "plain", code |-> 0, msg |-> msg]

\* status.Errorf(code, "%s", msg): (*Status).Err() is nil for codes.OK.
StatusErrorf(code, msg) ==
    IF code = Codes.OK THEN NoErr ELSE [kind |-> "status", code |-> code, msg |-> msg]

\* fmt.Errorf("proxy new stream: %w", err): status.FromError unwraps it.
WrapError(prefix, err) == [kind |-> "wrapped", code |-> err.code, msg |-> prefix]

\* status.FromError(err): <<code, message, ok>>.
FromError(err) ==
    CASE err.kind = "nil" -> <<Codes.OK, "", TRUE>>
      [] err.kind \in {"status", "wrapped"} -> <<err.code, err.msg, TRUE>>
      [] OTHER -> <<Codes.Unknown, err.msg, FALSE>>

(***************************************************************************)
(* mocks.DefaultRegistry                                                   *)
(***************************************************************************)
\* The JSON trees a mock may answer with: one that fits HelloReply and holds a zero
\* value, one that names a field HelloReply does not have.
MockResponses == {[message |-> "hi", count |-> 0], [bogus |-> "x"]}
NoResponse == [f \in {} |-> ""]
HeaderMaps == {{}, {<<"h", "v">>}}
DelaysMs == {0, 5}
\* grpcStatus: OK, PERMISSION_DENIED, and 2^32, which no uint32 holds.
GrpcStatuses == {GoInt(0, 0), GoInt(0, Codes.PermissionDenied), GoInt(1, 0)}

MockConfig(method, response, grpcStatus, headers, delayMs) ==
    [Service |-> Service, Method |-> method, MockResponse |-> response,
     GrpcStatus |-> grpcStatus,
     ErrorString |-> IF IsZero(grpcStatus) THEN "" ELSE "nope",
     Headers |-> headers, DelayMs |-> delayMs]

MockConfigs ==
    {MockConfig(m, r, GoInt(0, 0), hd, d) :
        m \in MethodNames, r \in MockResponses, hd \in HeaderMaps, d \in DelaysMs}
    \cup
    {MockConfig(m, NoResponse, st, hd, d) :
        m \in MethodNames, st \in GrpcStatuses \ {GoInt(0, 0)},
        hd \in HeaderMaps, d \in DelaysMs}

\* Names as a configuration caller may give them: the HTTP handler takes any strings.
MockServices == {Name("a"), <<"a", "/", "b">>}
MockMethods == {Name("b"), Name("c"), <<"b", "/", "c">>}
AnyMockConfigs ==
    {[Service |-> s, Method |-> m, MockResponse |-> NoResponse, GrpcStatus |-> GoInt(0, st),
      ErrorString |-> "nope", Headers |-> {}, DelayMs |-> 0] :
        s \in MockServices, m \in MockMethods,
        st \in {Codes.NotFound, Codes.PermissionDenied}}

\* The call reads the mock registry and the descriptor registry in its lookups only
\* (interceptor.go 46, handler.go 36 and 43).  A registration made after the last of
\* them commutes with every later step of the call and changes nothing the call or
\* its history can show, so registrations are interleaved with the call up to its
\* last lookup.
BeforeLastLookup == pc \in {"idle", "getMethodDescriptor", "getMock"}

\* RegisterMock: r.mockRegistry["/" + mc.Service + "/" + mc.Method] = mc.
RegisterMockKey(mc) == MethodPath(mc.Service, mc.Method)

\* A registry that keeps the first mock registered under a key.
RegisterMockKeepFirst(mc) ==
    /\ ~crashed
    /\ BeforeLastLookup
    /\ mockRegistry' = IF RegisterMockKey(mc) \in DOMAIN mockRegistry THEN mockRegistry
                       ELSE MapPut(mockRegistry, RegisterMockKey(mc), mc)
    /\ registered' = MapPut(registered, <<mc.Service, mc.Method>>, mc)
    /\ UNCHANGED <<methodDescriptorRegistry, historyVars, p, callVars, sourceVars, auxVars>>

RegisterMock(mc) ==
    /\ ~crashed
    /\ BeforeLastLookup
    /\ mockRegistry' = MapPut(mockRegistry, RegisterMockKey(mc), mc)
    /\ registered' = MapPut(registered, <<mc.Service, mc.Method>>, mc)
    /\ UNCHANGED <<methodDescriptorRegistry, historyVars, p, callVars, sourceVars,
                   auxVars>>

\* GetMock(fullMethod): <<mc, ok>> as an optional value.
GetMock(fullMethod) == MapGet(mockRegistry, fullMethod)

(***************************************************************************)
(* defaultDescriptorRegistry: the method map                               *)
(***************************************************************************)
\* RegisterFiles' effect on the method map for one method of a compiled file.
RegisterMethodDescriptor(path) ==
    /\ ~crashed
    /\ BeforeLastLookup
    /\ methodDescriptorRegistry' = MapPut(methodDescriptorRegistry, path, Descriptor)
    /\ UNCHANGED <<mockVars, historyVars, p, callVars, sourceVars, auxVars>>

GetMethodDescriptor(fullName) == MapGet(methodDescriptorRegistry, fullName)

(***************************************************************************)
(* history.DefaultRegistry                                                 *)
(***************************************************************************)
\* A registry that appends every entry it is given.
SaveHistoryAppend(list, entry) == Append(list, entry)

\* A registry that replaces the entry it has and takes no entry it has not.
SaveHistoryReplaceOnly(list, entry) ==
    [i \in 1..Len(list) |-> IF list[i].ID = entry.ID THEN entry ELSE list[i]]

\* SaveHistory(h): the first entry with h's ID is replaced, else h is appended.
SaveHistory(list, entry) ==
    IF \E i \in 1..Len(list) : list[i].ID = entry.ID
    THEN LET i == CHOOSE j \in 1..Len(list) :
                    /\ list[j].ID = entry.ID
                    /\ \A k \in 1..(j - 1) : list[k].ID # entry.ID
         IN [list EXCEPT ![i] = entry]
    ELSE Append(list, entry)

\* A call of SaveHistory(entry) on the registry.
\* A list a caller holds is Some([shared, val]): shared tells that it is the
\* registry's own array, so that an entry the registry replaces in place is replaced
\* in the caller's list too; an append does not reach the elements the caller sees.
SeenThrough(list, store) ==
    IF list = None \/ ~list[1].shared THEN list
    ELSE Some([list[1] EXCEPT !.val = [i \in 1..Len(@) |-> store[i]]])

SaveHistoryCall(entry) ==
    /\ histories' = SaveHistory(histories, entry)
    /\ saveLog' = Append(saveLog, entry)
    /\ listed' = SeenThrough(listed, histories')

\* A Clean that leaves the entries where they are.
CleanKeepsEntries ==
    /\ ~crashed
    /\ saveLog' = <<>>
    /\ UNCHANGED <<histories, listed>>
    /\ UNCHANGED <<mockVars, methodDescriptorRegistry, p, callVars, sourceVars,
                   auxVars>>

\* Clean(): r.histories = []History{}.
Clean ==
    /\ ~crashed
    /\ histories' = <<>>
    /\ saveLog' = <<>>
    /\ listed' = IF listed = None THEN None ELSE Some([listed[1] EXCEPT !.shared = FALSE])
    /\ UNCHANGED <<mockVars, methodDescriptorRegistry, p, callVars, sourceVars,
                   auxVars>>

(***************************************************************************)
(* The wrapped stream (interceptor.go)                                     *)
(***************************************************************************)
CallID == "uuid-1"

NoPayload == [kind |-> "nil", val |-> ""]

\* recordMessage's switch on the payload's dynamic type: <<payloadStr, payloadObj,
\* recognized>>.  kind is "proto" for a proto.Message (a *dynamicpb.Message), "bytes"
\* for a []byte and "other" for anything else (the *[]byte the proxy receives into).
recordPayload(direction, kind, payload, methodDescriptor) ==
    CASE kind = "proto" ->
           LET b == ProtoJSONMarshal(payload)
           IN IF b = None
              THEN <<[enc |-> "invalid-proto", val |-> ""], NoPayload, FALSE>>
              ELSE <<[enc |-> "json", val |-> b[1]], [kind |-> "tree", val |-> b[1]], TRUE>>
      [] kind = "bytes" ->
           LET type == IF methodDescriptor = None THEN ""
                       ELSE IF direction = "recv" THEN methodDescriptor[1].Input
                       ELSE methodDescriptor[1].Output
               dyn == IF methodDescriptor = None THEN None ELSE ProtoUnmarshal(payload, type)
               b == IF dyn = None THEN None ELSE ProtoJSONMarshal(dyn[1])
           IN IF b # None
              THEN <<[enc |-> "json", val |-> b[1]], [kind |-> "tree", val |-> b[1]], TRUE>>
              ELSE <<[enc |-> "base64", val |-> payload], NoPayload, FALSE>>
      [] OTHER ->
           <<[enc |-> "json-base64", val |-> payload], [kind |-> "bytes", val |-> payload], TRUE>>

\* recordMessage(direction, payload): the Message appended to w.history.Messages.
recordMessage(direction, kind, payload, now) ==
    LET r == recordPayload(direction, kind, payload, w.methodDescriptor)
    IN [Direction |-> direction, Timestamp |-> now, Recognized |-> r[3],
        Proxified |-> w.proxified, PayloadString |-> r[1], Payload |-> r[2]]

(***************************************************************************)
(* The underlying grpc.ServerStream                                        *)
(***************************************************************************)
IncomingMDs == {{}, {<<"authorization", "token">>}}

\* What a failed SendHeader or SendMsg of the underlying stream returns: the context's
\* error once the stream's context is done, else a transport error.
SendOutcomes ==
    IF stream.ctxDone THEN {StatusErrorf(Codes.Canceled, "context canceled")}
    ELSE {NoErr, StatusErrorf(Codes.Unavailable, "transport is closing"),
          PlainError("broken pipe")}

\* The client gives up the call: the stream's context is cancelled.
ClientCancel ==
    /\ ~crashed
    /\ pc \notin {"idle", "returned"}
    /\ ~stream.ctxDone
    /\ stream' = [stream EXCEPT !.ctxDone = TRUE, !.trace = Append(@, "cancel")]
    /\ UNCHANGED <<mockVars, methodDescriptorRegistry, historyVars, p, pc, h, w, hl, ret,
                   clock, crashed, px, sourceVars, auxVars>>

(***************************************************************************)
(* StreamInterceptor (interceptor.go) and Handler (handler.go)             *)
(***************************************************************************)
NoHistory == [ID |-> "", StartTime |-> 0, EndTime |-> None, FullMethod |-> <<>>,
              Messages |-> <<>>, State |-> "", GrpcCode |-> 0, GrpcMessage |-> ""]
\* recvd, msgs: the frames delivered by and the messages given to the transport;
\* trace: what happened on the stream, in order.
NoStream == [incomingMD |-> {}, ctxDone |-> FALSE, header |-> None, recvd |-> <<>>,
             msgs |-> <<>>, trace |-> <<>>]
NoLocals == [methodDescriptor |-> None, mc |-> None]
\* state: Handle's own goroutine; c2t, t2c: the two pumps, with msgC, msgT their
\* local msg; errCh: the channel's buffer.  What the model keeps besides: the frames
\* each pump received and forwarded, how each pump ended (c2tEnd, t2cEnd), how the
\* upstream ended the call (upstreamEnd) and whether Handle knew when it returned;
\* closeSent: targetStream.CloseSend() was called, which no statement of Handle does;
\* recC, recT: the recording each pump's goroutine is inside, between its read and its
\* write of w.history.Messages.
NoProxy == [state |-> "off", upstreamMD |-> None, errCh |-> <<>>, c2t |-> "off",
            closeSent |-> FALSE, recC |-> None, recT |-> None,
            t2c |-> "off", msgC |-> "", msgT |-> "", fromClient |-> <<>>,
            toUpstream |-> <<>>, fromUpstream |-> <<>>, toClient |-> <<>>,
            c2tEnd |-> "", t2cEnd |-> "", upstreamEnd |-> None, endAtReturn |-> None]

\* The handler returns err to the interceptor.
Return(err) == ret' = err /\ pc' = "handlerReturned"

\* The interceptor's entry: h is created and saved OPEN, the stream is wrapped, the
\* method descriptor is looked up, and the handler is called.
StreamInterceptorEnter(md) ==
    /\ ~crashed
    /\ pc = "idle"
    /\ clock' = clock + 1
    /\ h' = [ID |-> CallID, StartTime |-> clock', EndTime |-> None,
             FullMethod |-> FullMethod, Messages |-> <<>>, State |-> "OPEN",
             GrpcCode |-> 0, GrpcMessage |-> ""]
    /\ SaveHistoryCall(h')
    /\ w' = [proxified |-> FALSE, methodDescriptor |-> GetMethodDescriptor(FullMethod)]
    /\ stream' = [NoStream EXCEPT !.incomingMD = md]
    /\ pc' = "getMethodDescriptor"
    /\ UNCHANGED <<configVars, hl, ret, crashed, px, sourceVars, auxVars>>

\* handler.go 36-41: the descriptor lookup; without a proxy a miss ends the call.
HandlerGetMethodDescriptor ==
    /\ ~crashed
    /\ pc = "getMethodDescriptor"
    /\ hl' = [hl EXCEPT !.methodDescriptor = GetMethodDescriptor(FullMethod)]
    /\ IF hl'.methodDescriptor = None /\ ~p
       THEN Return(StatusErrorf(Codes.Unimplemented, "no method descriptor, no proxy"))
       ELSE pc' = "getMock" /\ UNCHANGED ret
    /\ UNCHANGED <<configVars, historyVars, h, w, stream, clock, crashed, px, sourceVars,
                   auxVars>>

\* A handler that hands every call without a mock to the proxy, configured or not.
MockRouteProxyAlways(methodDescriptor, mc, proxy) ==
    CASE mc = None -> "proxy"
      [] mc # None /\ methodDescriptor = None -> "panic"
      [] OTHER -> "mock"

\* A handler that hands a call to the proxy as soon as the method has no descriptor.
MockRouteProxyWithoutDescriptor(methodDescriptor, mc, proxy) ==
    CASE mc = None /\ ~proxy -> "unimplemented"
      [] mc = None /\ proxy -> "proxy"
      [] mc # None /\ methodDescriptor = None -> "proxy"
      [] OTHER -> "mock"

\* handler.go 37-59, the decision after the two lookups: "unimplemented", "proxy",
\* "mock", or "panic" when a mock is registered for a method without a descriptor and
\* the request message is allocated from the nil descriptor.
MockRoute(methodDescriptor, mc, proxy) ==
    CASE mc = None /\ ~proxy -> "unimplemented"
      [] mc = None /\ proxy -> "proxy"
      [] mc # None /\ methodDescriptor = None -> "panic"
      [] OTHER -> "mock"

\* A mock path that goes from the delay to the status or response, headers or not.
AfterSleepNoHeaders(mc) == "respond"

\* Where the mock path goes once the request is received.
AfterSleep(mc) == IF Cardinality(mc.Headers) > 0 THEN "sendHeader" ELSE "respond"
AfterRecv(mc) == IF mc.DelayMs > 0 THEN "sleep" ELSE AfterSleep(mc)

\* handler.go 43-59: the mock lookup.  No mock: UNIMPLEMENTED without a proxy, else
\* the stream is marked proxified and handed to p.Handle.  A mock: the request message
\* is allocated from methodDescriptor.Input(), which panics on a nil descriptor.
HandlerGetMock ==
    /\ ~crashed
    /\ pc = "getMock"
    /\ hl' = [hl EXCEPT !.mc = GetMock(FullMethod)]
    /\ LET route == MockRoute(hl.methodDescriptor, hl'.mc, p)
       IN CASE route = "unimplemented" ->
                 /\ Return(StatusErrorf(Codes.Unimplemented, "no mock, no proxy"))
                 /\ UNCHANGED <<w, crashed, px>>
            [] route = "proxy" ->
                 /\ w' = [w EXCEPT !.proxified = TRUE]
                 /\ pc' = "proxy"
                 /\ px' = [px EXCEPT !.state = "newStream"]
                 /\ UNCHANGED <<ret, crashed>>
            [] route = "panic" ->
                 /\ crashed' = TRUE
                 /\ pc' = "panic"
                 /\ UNCHANGED <<ret, w, px>>
            [] OTHER ->
                 /\ pc' = "recvMsg"
                 /\ UNCHANGED <<ret, w, crashed, px>>
    /\ UNCHANGED <<configVars, historyVars, h, stream, clock, sourceVars, auxVars>>

\* handler.go 60-62 with the wrapped RecvMsg: a frame that decodes is recorded; a
\* frame that does not, a half-close or a cancelled context is an error, which the
\* handler turns into INTERNAL.
HandlerRecvMsg ==
    /\ ~crashed
    /\ pc = "recvMsg"
    /\ \E got \in Frames \cup {"EOF"} \cup (IF stream.ctxDone THEN {"ctx"} ELSE {}) :
          LET m == IF got \in Frames
                   THEN ProtoUnmarshal(got, hl.methodDescriptor[1].Input) ELSE None
          IN IF m # None
             THEN /\ clock' = clock + 1
                  /\ h' = [h EXCEPT !.Messages =
                              Append(@, recordMessage("recv", "proto", m[1], clock'))]
                  /\ stream' = [stream EXCEPT !.recvd = Append(@, got),
                                              !.trace = Append(@, "recv")]
                  /\ pc' = AfterRecv(hl.mc[1])
                  /\ UNCHANGED ret
             ELSE /\ Return(StatusErrorf(Codes.Internal, "failed to receive message"))
                  /\ UNCHANGED <<clock, h, stream>>
    /\ UNCHANGED <<configVars, historyVars, w, hl, crashed, px, sourceVars, auxVars>>

\* handler.go 67-69: time.Sleep returns after the delay, whatever the context did.
HandlerSleep ==
    /\ ~crashed
    /\ pc = "sleep"
    /\ pc' = AfterSleep(hl.mc[1])
    /\ stream' = [stream EXCEPT !.trace = Append(@, "slept")]
    /\ UNCHANGED <<configVars, historyVars, h, w, hl, ret, clock, crashed, px, sourceVars,
                   auxVars>>

\* handler.go 71-75: the configured headers are sent; a failure ends the call.
HandlerSendHeader ==
    /\ ~crashed
    /\ pc = "sendHeader"
    /\ \E err \in SendOutcomes :
          IF err = NoErr
          THEN /\ stream' = [stream EXCEPT !.header = Some(hl.mc[1].Headers),
                                           !.trace = Append(@, "header")]
               /\ pc' = "respond"
               /\ UNCHANGED ret
          ELSE /\ Return(err)
               /\ stream' = [stream EXCEPT !.trace = Append(@, "header-failed")]
    /\ UNCHANGED <<configVars, historyVars, h, w, hl, clock, crashed, px, sourceVars,
                   auxVars>>

\* handler.go 77-90: the configured status, or the response built from mockResponse
\* and sent through the wrapped SendMsg, which records it and then sends it.
HandlerRespond ==
    /\ ~crashed
    /\ pc = "respond"
    /\ LET mc == hl.mc[1]
           dyn == ProtoJSONUnmarshal(mc.MockResponse, hl.methodDescriptor[1].Output)
       IN IF ~IsZero(mc.GrpcStatus)
          THEN /\ Return(StatusErrorf(CodeOf(mc.GrpcStatus), mc.ErrorString))
               /\ UNCHANGED <<clock, h, stream>>
          ELSE IF dyn = None
          THEN /\ Return(StatusErrorf(Codes.Internal, "json->message"))
               /\ UNCHANGED <<clock, h, stream>>
          ELSE /\ clock' = clock + 1
               /\ h' = [h EXCEPT !.Messages =
                           Append(@, recordMessage("send", "proto", dyn[1], clock'))]
               /\ \E err \in SendOutcomes :
                     /\ Return(err)
                     /\ stream' = IF err = NoErr
                                  THEN [stream EXCEPT !.msgs = Append(@, dyn[1]),
                                                      !.trace = Append(@, "send")]
                                  ELSE [stream EXCEPT !.trace = Append(@, "send-failed")]
    /\ UNCHANGED <<configVars, historyVars, w, hl, crashed, px, sourceVars, auxVars>>

\* int32(code): the history's GrpcCode.
Int32(code) == IF code <= 2147483647 THEN code ELSE code - 2147483647 - 2147483647 - 2

\* A close after which the stream's context is still live.
StreamInterceptorCloseKeepsContext ==
    /\ ~crashed
    /\ pc = "handlerReturned"
    /\ clock' = clock + 1
    /\ LET s == FromError(ret)
       IN h' = [h EXCEPT !.EndTime = Some(clock'), !.State = "CLOSED",
                         !.GrpcCode = Int32(s[1]), !.GrpcMessage = s[2]]
    /\ SaveHistoryCall(h')
    /\ pc' = "returned"
    /\ UNCHANGED <<configVars, w, hl, ret, stream, crashed, px, sourceVars, auxVars>>

\* interceptor.go 50-63: the handler has returned; h is closed and saved.  The
\* transport cancels the stream's context when the handler returns.
StreamInterceptorClose ==
    /\ ~crashed
    /\ pc = "handlerReturned"
    /\ clock' = clock + 1
    /\ LET s == FromError(ret)
       IN h' = [h EXCEPT !.EndTime = Some(clock'), !.State = "CLOSED",
                         !.GrpcCode = Int32(s[1]), !.GrpcMessage = s[2]]
    /\ SaveHistoryCall(h')
    /\ pc' = "returned"
    /\ stream' = [stream EXCEPT !.ctxDone = TRUE]
    /\ UNCHANGED <<configVars, w, hl, ret, crashed, px, sourceVars, auxVars>>

(***************************************************************************)
(* Proxy.Handle (proxy.go)                                                 *)
(***************************************************************************)
\* make(chan error, 2)
ErrChCapacity == 2

\* The frames the client and the upstream send, in order; each peer sends a prefix.
ClientFrames == <<"hello", "garbage", "any", "empty">>
UpstreamFrames == <<"empty", "hello", "garbage", "any">>
NthFrame(frames, k) == frames[((k - 1) % Len(frames)) + 1]

\* metadata.FromOutgoingContext(serverStream.Context()): the context of a server
\* stream carries the call's metadata as incoming metadata and none as outgoing.
OutgoingMetadata(ctx) == {}

\* A pump that forwards the frame it received before, not the one it holds.
ForwardStale(sent, msg) == Append(sent, IF sent = <<>> THEN msg ELSE sent[Len(sent)])

\* A pump's SendMsg(msg) that succeeds: msg follows what the peer already got.
Forward(sent, msg) == Append(sent, msg)

\* A pump that signals its end twice.
SignalTwice(ch, err) == Append(Append(ch, err), err)

\* A pump's errCh <- err.
Signal(ch, err) == Append(ch, err)

\* proxy.go 36-42: the upstream stream is opened on the incoming stream's context.
HandleNewStream ==
    /\ ~crashed
    /\ pc = "proxy" /\ px.state = "newStream"
    /\ \E err \in {NoErr, StatusErrorf(IF stream.ctxDone THEN Codes.Canceled
                                        ELSE Codes.Unavailable, "new stream")} :
          IF err = NoErr
          THEN /\ px' = [px EXCEPT !.state = "running", !.c2t = "recv", !.t2c = "recv",
                                   !.upstreamMD = Some(OutgoingMetadata(stream))]
               /\ UNCHANGED <<pc, ret>>
          ELSE /\ px' = [px EXCEPT !.state = "done"]
               /\ Return(WrapError("proxy new stream", err))
    /\ UNCHANGED <<configVars, historyVars, h, w, hl, stream, clock, crashed, sourceVars,
                   auxVars>>

\* interceptor.go 149-156: w.history.Messages = append(w.history.Messages, msg) is a
\* read of the slice, the building of msg with its time.Now(), and a write of the
\* slice, with no lock: the two pumps of a proxied call run it in two goroutines on
\* the same wrappedServerStream.  LoadMessages is what a goroutine holds after the
\* read, StoreMessages what its write leaves in w.history.Messages, whatever
\* another goroutine wrote in between.
LoadMessages(msg) == Some([base |-> h.Messages, msg |-> msg])
StoreMessages(rec) == Append(rec[1].base, rec[1].msg)

\* proxy.go 52-65: the client->target pump receives a frame through the wrapped
\* stream, whose RecvMsg starts to record it (interceptor.go 72-78), or signals the
\* error or the half-close and stops.
PumpClientRecv ==
    /\ ~crashed
    /\ px.c2t = "recv"
    /\ \E got \in IF stream.ctxDone THEN {"ctx"}
                   ELSE {"EOF"} \cup (IF Len(px.fromClient) < MaxFrames THEN {"frame"} ELSE {}) :
          IF got = "frame"
          THEN LET f == NthFrame(ClientFrames, Len(px.fromClient) + 1)
               IN /\ clock' = clock + 1
                  /\ px' = [px EXCEPT !.fromClient = Append(@, f), !.msgC = f,
                                      !.c2t = "send", !.recC =
                               LoadMessages(recordMessage("recv", "other", f, clock'))]
          ELSE /\ Len(px.errCh) < ErrChCapacity
               /\ px' = [px EXCEPT !.c2t = "done", !.c2tEnd = got, !.errCh =
                            Signal(@, IF got = "EOF" THEN EOF
                                      ELSE StatusErrorf(Codes.Canceled, "context canceled"))]
               /\ UNCHANGED clock
    /\ UNCHANGED <<configVars, historyVars, pc, h, w, hl, ret, stream, crashed,
                   sourceVars, auxVars>>

\* proxy.go 69-76: the recording ends with its write of w.history.Messages, RecvMsg
\* returns and the frame is forwarded to the target; SendMsg on a client stream that
\* has ended returns io.EOF.
PumpClientSend ==
    /\ ~crashed
    /\ px.c2t = "send"
    /\ h' = [h EXCEPT !.Messages = StoreMessages(px.recC)]
    /\ \E err \in {NoErr, EOF} :
          IF err = NoErr
          THEN px' = [px EXCEPT !.toUpstream = Forward(@, px.msgC), !.c2t = "recv",
                               !.recC = None]
          ELSE /\ Len(px.errCh) < ErrChCapacity
               /\ px' = [px EXCEPT !.c2t = "done", !.errCh = Signal(@, err),
                                   !.c2tEnd = "send-failed", !.recC = None]
    /\ UNCHANGED <<configVars, historyVars, pc, w, hl, ret, stream, clock, crashed,
                   sourceVars, auxVars>>

\* proxy.go 87-102: the target->client pump receives a frame from the upstream and
\* gives it to the wrapped stream's SendMsg, which starts to record it
\* (interceptor.go 67-70), or receives the upstream's end: io.EOF for OK, the status
\* otherwise.
PumpTargetRecv ==
    /\ ~crashed
    /\ px.t2c = "recv"
    /\ \E got \in {"EOF", "status"} \cup (IF stream.ctxDone THEN {"ctx"} ELSE {})
                   \cup (IF Len(px.fromUpstream) < MaxFrames THEN {"frame"} ELSE {}) :
          IF got = "frame"
          THEN LET f == NthFrame(UpstreamFrames, Len(px.fromUpstream) + 1)
               IN /\ clock' = clock + 1
                  /\ px' = [px EXCEPT !.fromUpstream = Append(@, f), !.msgT = f,
                                      !.t2c = "send", !.recT =
                               LoadMessages(recordMessage("send", "bytes", f, clock'))]
          ELSE LET err == CASE got = "EOF" -> EOF
                            [] got = "status" -> StatusErrorf(Codes.NotFound, "no such thing")
                            [] OTHER -> StatusErrorf(Codes.Canceled, "context canceled")
               IN /\ Len(px.errCh) < ErrChCapacity
                  /\ px' = [px EXCEPT !.t2c = "done", !.errCh = Signal(@, err),
                                      !.t2cEnd = got,
                                      !.upstreamEnd = IF got = "ctx" THEN @ ELSE Some(err)]
                  /\ UNCHANGED clock
    /\ UNCHANGED <<configVars, historyVars, pc, h, w, hl, ret, stream, crashed,
                   sourceVars, auxVars>>

\* proxy.go 102-109: the recording ends with its write of w.history.Messages and the
\* wrapped stream sends the frame to the client.
PumpTargetSend ==
    /\ ~crashed
    /\ px.t2c = "send"
    /\ h' = [h EXCEPT !.Messages = StoreMessages(px.recT)]
    /\ \E err \in SendOutcomes :
          IF err = NoErr
          THEN /\ px' = [px EXCEPT !.toClient = Forward(@, px.msgT), !.t2c = "recv",
                                  !.recT = None]
               /\ stream' = [stream EXCEPT !.msgs = Append(@, px.msgT)]
          ELSE /\ Len(px.errCh) < ErrChCapacity
               /\ px' = [px EXCEPT !.t2c = "done", !.errCh = Signal(@, err),
                                   !.t2cEnd = "send-failed", !.recT = None]
               /\ UNCHANGED stream
    /\ UNCHANGED <<configVars, historyVars, pc, w, hl, ret, clock, crashed, sourceVars,
                   auxVars>>

\* A Handle that waits for the second signal whatever the first is.
HandleFirstSignalWaits ==
    /\ ~crashed
    /\ pc = "proxy" /\ px.state = "running"
    /\ px.errCh # <<>>
    /\ px' = [px EXCEPT !.errCh = Tail(@), !.state = "waitSecond"]
    /\ UNCHANGED <<pc, ret>>
    /\ UNCHANGED <<configVars, historyVars, h, w, hl, stream, clock, crashed, sourceVars,
                   auxVars>>

\* proxy.go 120-123: firstErr := <-errCh; a genuine error is returned at once.
HandleFirstSignal ==
    /\ ~crashed
    /\ pc = "proxy" /\ px.state = "running"
    /\ px.errCh # <<>>
    /\ LET firstErr == Head(px.errCh)
       IN IF firstErr # NoErr /\ firstErr # EOF
          THEN /\ px' = [px EXCEPT !.errCh = Tail(@), !.state = "done",
                                   !.endAtReturn = px.upstreamEnd]
               /\ Return(firstErr)
          ELSE /\ px' = [px EXCEPT !.errCh = Tail(@), !.state = "waitSecond"]
               /\ UNCHANGED <<pc, ret>>
    /\ UNCHANGED <<configVars, historyVars, h, w, hl, stream, clock, crashed, sourceVars,
                   auxVars>>

\* proxy.go 124-125: <-errCh; return nil.
HandleSecondSignal ==
    /\ ~crashed
    /\ pc = "proxy" /\ px.state = "waitSecond"
    /\ px.errCh # <<>>
    /\ px' = [px EXCEPT !.errCh = Tail(@), !.state = "done",
                        !.endAtReturn = px.upstreamEnd]
    /\ Return(NoErr)
    /\ UNCHANGED <<configVars, historyVars, h, w, hl, stream, clock, crashed, sourceVars,
                   auxVars>>

(***************************************************************************)
(* proxy.MultiplexCodec.  A value given to the codec is <<type, content>>: *)
(*   <<"bytes", b>>     a []byte holding b                                 *)
(*   <<"holder", b>>    a *[]byte whose []byte holds b                     *)
(*   <<"message", m>>   a proto.Message, message Count { int32 count = 1 } *)
(*   <<"other", <<>>>>  a value of another type                            *)
(* A mem.BufferSlice is the sequence of its buffers.                       *)
(***************************************************************************)
ByteValues == {0, 1, 8}
Buffers == UNION {[1..n -> ByteValues] : n \in 0..MaxBufferLen}
CountMessages == {[count |-> n] : n \in ByteValues}
CodecValues ==
    {<<"bytes", b>> : b \in Buffers} \cup {<<"holder", b>> : b \in Buffers}
        \cup {<<"message", m>> : m \in CountMessages} \cup {<<"other", <<>>>>}
CodecTargets ==
    {<<"holder", <<>>>>, <<"holder", <<1>>>>, <<"message", [count |-> 1]>>,
     <<"bytes", <<1>>>>, <<"other", <<>>>>}

\* data.Materialize(): the bytes of the buffers, one after the other.
RECURSIVE Materialize(_)
Materialize(data) == IF data = <<>> THEN <<>> ELSE Head(data) \o Materialize(Tail(data))

\* The frames of at most MaxBufferLen bytes, in at most MaxChunks buffers.
BufferSlices ==
    {data \in UNION {[1..n -> Buffers] : n \in 0..MaxChunks} :
        Len(Materialize(data)) <= MaxBufferLen}

\* proto.Marshal of a Count: the field with its tag, left out when it is zero.
ProtoEncode(m) == IF m.count = 0 THEN <<>> ELSE <<8, m.count>>

\* proto.Unmarshal into a Count: the tag 8 and the value, as often as they come; the
\* last value stays.  Other bytes are no encoding of a Count.
RECURSIVE ProtoDecode(_, _)
ProtoDecode(b, m) ==
    IF b = <<>> THEN Some(m)
    ELSE IF Len(b) >= 2 /\ b[1] = 8
    THEN ProtoDecode(SubSeq(b, 3, Len(b)), [count |-> b[2]])
    ELSE None

\* The parent codec, encoding.GetCodecV2("proto"): it takes a proto.Message only.
ParentMarshal(v) ==
    IF v[1] = "message" THEN [data |-> <<ProtoEncode(v[2])>>, err |-> NoErr]
    ELSE [data |-> <<>>, err |-> PlainError("proto: failed to marshal, want proto.Message")]
ParentUnmarshal(data, v) ==
    IF v[1] # "message"
    THEN [v |-> v, err |-> PlainError("failed to unmarshal, want proto.Message")]
    ELSE LET m == ProtoDecode(Materialize(data), [count |-> 0])
         IN IF m = None
            THEN [v |-> <<"message", [count |-> 0]>>, err |-> PlainError("proto: cannot parse")]
            ELSE [v |-> <<"message", m[1]>>, err |-> NoErr]

\* A codec that hands every value to its parent.
MarshalByParent(v) == ParentMarshal(v)

\* Marshal(v): a []byte is the one buffer of the result, anything else is the parent's.
Marshal(v) ==
    IF v[1] = "bytes" THEN [data |-> <<v[2]>>, err |-> NoErr]
    ELSE ParentMarshal(v)

\* Unmarshal(data, v): a *[]byte takes the materialized frame, anything else is the
\* parent's.
Unmarshal(data, v) ==
    IF v[1] = "holder" THEN [v |-> <<"holder", Materialize(data)>>, err |-> NoErr]
    ELSE ParentUnmarshal(data, v)

CodecName == "multiplex"

NoCodecCalls == [name |-> CodecName, marshal |-> None, unmarshal |-> None]

\* A caller marshals v.  cx holds the codec's last call, and with an Unmarshal the
\* Marshal before it when the Unmarshal took what that Marshal returned.
MarshalCall(v) ==
    /\ LET r == Marshal(v)
       IN cx' = Some([NoCodecCalls EXCEPT
                        !.marshal = Some([v |-> v, data |-> r.data, err |-> r.err])])
    /\ UNCHANGED <<configVars, historyVars, callVars, sourceVars, fileVars, rs, rg, hr>>

\* A caller unmarshals data into v; out is v afterwards.
UnmarshalCall(data, v) ==
    /\ LET r == Unmarshal(data, v)
           taken == /\ cx # None /\ cx[1].marshal # None
                    /\ cx[1].marshal[1].err = NoErr
                    /\ cx[1].marshal[1].data = data
       IN cx' = Some([NoCodecCalls EXCEPT
                        !.marshal = IF taken THEN cx[1].marshal ELSE None,
                        !.unmarshal = Some([data |-> data, v |-> v, out |-> r.v,
                                            err |-> r.err])])
    /\ UNCHANGED <<configVars, historyVars, callVars, sourceVars, fileVars, rs, rg, hr>>

(***************************************************************************)
(* defaultDescriptorRegistry: the sources                                  *)
(***************************************************************************)
FileNames == {"a.proto", "b.proto", "c.proto"}
Contents == {"v1", "v2"}
NoSources == [f \in {} |-> ""]

\* slices.Contains(s.protoFileNames, filename)
Contains(list, x) == \E i \in 1..Len(list) : list[i] = x

\* An ingest that appends the filename without looking for it in the list.
IngestProtoFileAppendAlways(filename, content) ==
    /\ Len(ingestLog) < MaxIngests
    /\ protoFiles' = [f \in DOMAIN protoFiles \cup {filename} |->
                         IF f = filename THEN content ELSE protoFiles[f]]
    /\ protoFileNames' = Append(protoFileNames, filename)
    /\ ingestLog' = Append(ingestLog, <<filename, content>>)
    /\ UNCHANGED <<configVars, historyVars, callVars, auxVars>>

\* IngestProtoFile(filename, content): s.protoFiles[filename] = content, and the
\* filename is appended to s.protoFileNames unless the list contains it.  ingestLog
\* keeps the calls made, in order.
IngestProtoFile(filename, content) ==
    /\ Len(ingestLog) < MaxIngests
    /\ protoFiles' = [f \in DOMAIN protoFiles \cup {filename} |->
                         IF f = filename THEN content ELSE protoFiles[f]]
    /\ protoFileNames' = IF ~Contains(protoFileNames, filename)
                         THEN Append(protoFileNames, filename)
                         ELSE protoFileNames
    /\ ingestLog' = Append(ingestLog, <<filename, content>>)
    /\ UNCHANGED <<configVars, historyVars, callVars, auxVars>>

(***************************************************************************)
(* The .proto sources and protocompile.  A source is named by what it      *)
(* holds:                                                                  *)
(*   "greeter"   package example;                                          *)
(*               message HelloRequest, message HelloReply,                 *)
(*               service Greeter { rpc SayHello(HelloRequest)              *)
(*                                     returns (HelloReply) }              *)
(*   "greeter2"  package example;                                          *)
(*               message HelloReply, message HelloRequest,                 *)
(*               service Farewell { rpc SayBye(HelloRequest)               *)
(*                                      returns (HelloReply) }             *)
(*               service Greeter { rpc SayHello(HelloReply)                *)
(*                                     returns (HelloRequest) }            *)
(*   "echo"      import "a.proto"; package other;                          *)
(*               message Wrapper,                                          *)
(*               service Echo { rpc Ping(example.HelloRequest)             *)
(*                                  returns (Wrapper) }                    *)
(*   "broken"    text that is no proto source                              *)
(***************************************************************************)
ProtoSources == {"greeter", "greeter2", "echo", "broken"}

Method(name, input, output) == [Name |-> Name(name), Input |-> Name(input), Output |-> Name(output)]
ServiceOf(fullName, methods) == [FullName |-> Name(fullName), Methods |-> methods]

\* The parser: the imports, top-level messages and services of a source, or None.
Parse(content) ==
    CASE content = "greeter" ->
           Some([Imports |-> {},
                 Messages |-> <<Name("example.HelloRequest"), Name("example.HelloReply")>>,
                 Services |-> <<ServiceOf("example.Greeter",
                                    <<Method("SayHello", "example.HelloRequest",
                                             "example.HelloReply")>>)>>])
      [] content = "greeter2" ->
           Some([Imports |-> {},
                 Messages |-> <<Name("example.HelloReply"), Name("example.HelloRequest")>>,
                 Services |-> <<ServiceOf("example.Farewell",
                                    <<Method("SayBye", "example.HelloRequest",
                                             "example.HelloReply")>>),
                                ServiceOf("example.Greeter",
                                    <<Method("SayHello", "example.HelloReply",
                                             "example.HelloRequest")>>)>>])
      [] content = "echo" ->
           Some([Imports |-> {"a.proto"},
                 Messages |-> <<Name("other.Wrapper")>>,
                 Services |-> <<ServiceOf("other.Echo",
                                    <<Method("Ping", "example.HelloRequest",
                                             "other.Wrapper")>>)>>])
      [] OTHER -> None

Range(seq) == {seq[i] : i \in 1..Len(seq)}

\* The symbols a parsed file declares, and the types its methods name.
Declares(ast) == Range(ast.Messages) \cup {svc.FullName : svc \in Range(ast.Services)}
Refers(ast) ==
    UNION {{m.Input, m.Output} : m \in UNION {Range(svc.Methods) : svc \in Range(ast.Services)}}

\* SourceResolver{ImportPaths: ".", Accessor: SourceAccessorFromMap(files)}: a path is
\* found when the map has it.
Resolves(files, path) == path \in DOMAIN files

\* The file at path links: it is found and parses, it is not among the files that
\* import it, its imports link, and every type it names is declared by the file or
\* by a file it imports.
RECURSIVE Links(_, _, _)
Links(files, path, importers) ==
    /\ path \notin importers
    /\ Resolves(files, path)
    /\ Parse(files[path]) # None
    /\ LET ast == Parse(files[path])[1]
       IN /\ \A i \in ast.Imports : Links(files, i, importers \cup {path})
          /\ \A r \in Refers(ast) :
                \/ r \in Range(ast.Messages)
                \/ \E i \in ast.Imports : r \in Range(Parse(files[i])[1].Messages)

\* One symbol table serves a Compile call: no symbol is declared by two of its files.
NoSymbolTwice(files, names) ==
    \A i, j \in 1..Len(names) :
        (i # j /\ Parse(files[names[i]]) # None /\ Parse(files[names[j]]) # None)
            => Declares(Parse(files[names[i]])[1]) \cap Declares(Parse(files[names[j]])[1]) = {}

\* The descriptor of a linked file.  Source tells the descriptors of two compilations
\* of one path apart.
FileDescriptor(path, content) ==
    [Path |-> path, Source |-> content,
     Messages |-> Parse(content)[1].Messages,
     Services |-> Parse(content)[1].Services]

MessageDescriptor(fd, i) == [FullName |-> fd.Messages[i], Path |-> fd.Path, Source |-> fd.Source]
MethodDescriptor(fd, i, j) ==
    [Input |-> fd.Services[i].Methods[j].Input, Output |-> fd.Services[i].Methods[j].Output,
     Path |-> fd.Path, Source |-> fd.Source]

\* A compiler that links the files one after the other in the order of names, a file
\* finding only the files before it.
CompileInOrder(files, names) ==
    IF /\ \A i \in 1..Len(names) :
             Links([f \in {names[k] : k \in 1..i} |-> files[f]], names[i], {})
       /\ NoSymbolTwice(files, names)
    THEN [err |-> NoErr,
          fds |-> [i \in 1..Len(names) |-> FileDescriptor(names[i], files[names[i]])]]
    ELSE [err |-> PlainError("compile error"), fds |-> <<>>]

\* Compile(): compiler.Compile(ctx, s.protoFileNames...) over s.protoFiles.  The
\* descriptors come in the order of names; one file that does not link fails the call.
Compile(files, names) ==
    IF /\ \A i \in 1..Len(names) : Links(files, names[i], {})
       /\ NoSymbolTwice(files, names)
    THEN [err |-> NoErr,
          fds |-> [i \in 1..Len(names) |-> FileDescriptor(names[i], files[names[i]])]]
    ELSE [err |-> PlainError("compile error"), fds |-> <<>>]

(***************************************************************************)
(* reflection.defaultDescriptorRegistry: the descriptors                   *)
(***************************************************************************)
\* protoregistry.GlobalFiles: the files of the generated packages the program links.
GlobalFiles ==
    {[Path |-> "google/protobuf/descriptor.proto", Source |-> "builtin",
      Messages |-> <<Name("google.protobuf.FileDescriptorProto")>>,
      Services |-> <<>>],
     [Path |-> "grpc/reflection/v1/reflection.proto", Source |-> "builtin",
      Messages |-> <<Name("grpc.reflection.v1.ServerReflectionRequest")>>,
      Services |-> <<ServiceOf("grpc.reflection.v1.ServerReflection",
                         <<Method("ServerReflectionInfo",
                                  "grpc.reflection.v1.ServerReflectionRequest",
                                  "grpc.reflection.v1.ServerReflectionResponse")>>)>>]}

\* RangeFiles visits the files in no specified order.
RangeFiles(set) ==
    {q \in [1..Cardinality(set) -> set] : \A i, j \in 1..Cardinality(set) : i # j => q[i] # q[j]}

\* The three indices as one value.
Indices == [files |-> allFileDescriptors, messages |-> messageDescriptorRegistry,
            methods |-> methodDescriptorRegistry]

\* A registration of messages in which the last file to declare a name has it.
RECURSIVE RegisterMessagesOverwrite(_, _, _)
RegisterMessagesOverwrite(messages, fd, i) ==
    IF i > Len(fd.Messages) THEN messages
    ELSE RegisterMessagesOverwrite(MapPut(messages, fd.Messages[i], MessageDescriptor(fd, i)),
                                   fd, i + 1)

\* The messages of fd from the i-th on: a name the map has keeps its descriptor.
RECURSIVE RegisterMessages(_, _, _)
RegisterMessages(messages, fd, i) ==
    IF i > Len(fd.Messages) THEN messages
    ELSE RegisterMessages(IF fd.Messages[i] \in DOMAIN messages THEN messages
                          ELSE MapPut(messages, fd.Messages[i], MessageDescriptor(fd, i)),
                          fd, i + 1)

\* A registration of methods in which a path the map has keeps its descriptor.
RECURSIVE RegisterMethodsKeepFirst(_, _, _, _)
RegisterMethodsKeepFirst(methods, fd, i, j) ==
    IF i > Len(fd.Services) THEN methods
    ELSE IF j > Len(fd.Services[i].Methods) THEN RegisterMethodsKeepFirst(methods, fd, i + 1, 1)
    ELSE LET path == MethodPath(fd.Services[i].FullName, fd.Services[i].Methods[j].Name)
         IN RegisterMethodsKeepFirst(IF path \in DOMAIN methods THEN methods
                                     ELSE MapPut(methods, path, MethodDescriptor(fd, i, j)),
                                     fd, i, j + 1)

\* The methods of fd from the j-th of its i-th service on: the map takes every one.
RECURSIVE RegisterMethods(_, _, _, _)
RegisterMethods(methods, fd, i, j) ==
    IF i > Len(fd.Services) THEN methods
    ELSE IF j > Len(fd.Services[i].Methods) THEN RegisterMethods(methods, fd, i + 1, 1)
    ELSE RegisterMethods(MapPut(methods,
                                MethodPath(fd.Services[i].FullName, fd.Services[i].Methods[j].Name),
                                MethodDescriptor(fd, i, j)),
                         fd, i, j + 1)

\* RegisterFiles(fds): every file is appended to the file list, its messages and its
\* methods are put into the maps.
RECURSIVE RegisterFiles(_, _)
RegisterFiles(ix, fds) ==
    IF fds = <<>> THEN ix
    ELSE RegisterFiles([files |-> Append(ix.files, Head(fds)),
                        messages |-> RegisterMessages(ix.messages, Head(fds), 1),
                        methods |-> RegisterMethods(ix.methods, Head(fds), 1, 1)],
                       Tail(fds))

\* GetMessageDescriptor(fullName)
GetMessageDescriptor(fullName) == MapGet(messageDescriptorRegistry, fullName)

\* What CompileAndRegister does with the sources it finds: the error it returns and
\* the indices it leaves.
CompiledAndRegistered(ix, files, names) ==
    LET c == Compile(files, names)
    IN IF c.err # NoErr
       THEN [err |-> PlainError("compile error"), ix |-> ix]
       ELSE [err |-> NoErr, ix |-> RegisterFiles(ix, c.fds)]

SetIndices(ix) ==
    /\ allFileDescriptors' = ix.files
    /\ messageDescriptorRegistry' = ix.messages
    /\ methodDescriptorRegistry' = ix.methods

\* A CompileAndRegister that registers the files that link although others do not.
CompileAndRegisterLinked ==
    /\ compiles < MaxCompiles
    /\ LET linked == SelectSeq(protoFileNames, LAMBDA f : Links(protoFiles, f, {}))
           c == Compile(protoFiles, protoFileNames)
       IN /\ compileErr' = c.err
          /\ SetIndices(RegisterFiles(Indices,
                 [i \in 1..Len(linked) |-> FileDescriptor(linked[i], protoFiles[linked[i]])]))
    /\ compiles' = compiles + 1
    /\ UNCHANGED <<mockVars, p, historyVars, callVars, sourceVars, rs, otherVars>>

\* CompileAndRegister()
CompileAndRegister ==
    /\ compiles < MaxCompiles
    /\ LET r == CompiledAndRegistered(Indices, protoFiles, protoFileNames)
       IN /\ compileErr' = r.err
          /\ SetIndices(r.ix)
    /\ compiles' = compiles + 1
    /\ UNCHANGED <<mockVars, p, historyVars, callVars, sourceVars, rs, otherVars>>

\* RegisterProtoFile(filename, content): IngestProtoFile, then as CompileAndRegister.
RegisterProtoFile(filename, content) ==
    /\ compiles < MaxCompiles
    /\ Len(ingestLog) < MaxIngests
    /\ protoFiles' = [f \in DOMAIN protoFiles \cup {filename} |->
                         IF f = filename THEN content ELSE protoFiles[f]]
    /\ protoFileNames' = IF ~Contains(protoFileNames, filename)
                         THEN Append(protoFileNames, filename)
                         ELSE protoFileNames
    /\ ingestLog' = Append(ingestLog, <<filename, content>>)
    /\ LET r == CompiledAndRegistered(Indices, protoFiles', protoFileNames')
       IN /\ compileErr' = r.err
          /\ SetIndices(r.ix)
    /\ compiles' = compiles + 1
    /\ UNCHANGED <<mockVars, p, historyVars, callVars, rs, otherVars>>

(***************************************************************************)
(* The HTTP handlers of the proto sources (http.Server).  A request is its *)
(* method and its body: <<"invalid", <<>>>> for a body that is no JSON,    *)
(* <<"files", files>> for a BulkUploadRequest with these files.            *)
(***************************************************************************)
ProtoJSON(filename, content) == [Filename |-> filename, Content |-> content]
ProtoJSONs ==
    {ProtoJSON(f, c) : f \in {"", "a.proto", "b.proto"}, c \in {"", "greeter"}}
BulkUploadRequests ==
    {<<"invalid", <<>>>>}
    \cup {<<"files", files>> : files \in UNION {[1..n -> ProtoJSONs] : n \in 0..MaxUploadFiles}}
HTTPMethods == {"POST", "GET"}

\* The sources as one value.
Sources == [files |-> protoFiles, names |-> protoFileNames, log |-> ingestLog]

\* IngestProtoFile(filename, content) on the sources src.
IngestProtoFileInto(src, filename, content) ==
    [files |-> [f \in DOMAIN src.files \cup {filename} |->
                   IF f = filename THEN content ELSE src.files[f]],
     names |-> IF ~Contains(src.names, filename) THEN Append(src.names, filename)
               ELSE src.names,
     log |-> Append(src.log, <<filename, content>>)]

\* part_006 40-46 and 70-76: the loop over req.Files; a file without filename or
\* content ends it, the files before it are ingested.
RECURSIVE IngestAll(_, _)
IngestAll(src, files) ==
    IF files = <<>> THEN [src |-> src, ok |-> TRUE]
    ELSE IF Head(files).Filename = "" \/ Head(files).Content = ""
    THEN [src |-> src, ok |-> FALSE]
    ELSE IngestAll(IngestProtoFileInto(src, Head(files).Filename, Head(files).Content),
                   Tail(files))

SetSources(src) ==
    /\ protoFiles' = src.files
    /\ protoFileNames' = src.names
    /\ ingestLog' = src.log

\* writeError(w, status, msg) or writeJSON(w, status, nil); served alternates, so that
\* two requests answered alike one after the other leave two different responses.
Responded(handler, status, msg) ==
    hr' = Some([handler |-> handler, status |-> status, msg |-> msg,
                served |-> IF hr # None /\ hr[1].handler = handler /\ hr[1].status = status
                              /\ hr[1].msg = msg
                           THEN 1 - hr[1].served ELSE 0])

\* What both handlers do before their loop: <<status, message>> of the response, or
\* None when the request goes on.
Rejected(method, body) ==
    IF method # "POST" THEN Some(<<405, "method not allowed">>)
    ELSE IF body[1] = "invalid" THEN Some(<<400, "invalid JSON">>)
    ELSE IF Len(body[2]) = 0 THEN Some(<<400, "no proto files provided">>)
    ELSE None

\* handleIngestProtoJSON (POST /protos/ingest/json).
handleIngestProtoJSON(method, body) ==
    /\ Len(ingestLog) + MaxUploadFiles <= MaxIngests
    /\ LET early == Rejected(method, body)
       IN IF early # None
          THEN /\ Responded("ingest", early[1][1], early[1][2])
               /\ UNCHANGED sourceVars
          ELSE LET r == IngestAll(Sources, body[2])
               IN /\ SetSources(r.src)
                  /\ IF r.ok THEN Responded("ingest", 201, "")
                     ELSE Responded("ingest", 400,
                                    "filename and content required for all files")
    /\ UNCHANGED <<configVars, historyVars, callVars, fileVars, rs, cx, rg>>

\* handleUploadProtoJSON (POST /protos/register/json): the same loop, then
\* CompileAndRegister.
handleUploadProtoJSON(method, body) ==
    /\ Len(ingestLog) + MaxUploadFiles <= MaxIngests
    /\ compiles < MaxCompiles
    /\ LET early == Rejected(method, body)
       IN IF early # None
          THEN /\ Responded("upload", early[1][1], early[1][2])
               /\ UNCHANGED <<sourceVars, fileVars, methodDescriptorRegistry>>
          ELSE LET r == IngestAll(Sources, body[2])
               IN /\ SetSources(r.src)
                  /\ IF ~r.ok
                     THEN /\ Responded("upload", 400,
                                       "filename and content required for all files")
                          /\ UNCHANGED <<fileVars, methodDescriptorRegistry>>
                     ELSE LET c == CompiledAndRegistered(Indices, r.src.files, r.src.names)
                          IN /\ compileErr' = c.err
                             /\ SetIndices(c.ix)
                             /\ compiles' = compiles + 1
                             /\ IF c.err # NoErr
                                THEN Responded("upload", 400,
                                               "failed to compile files")
                                ELSE Responded("upload", 201, "")
    /\ UNCHANGED <<mockVars, p, historyVars, callVars, rs, cx, rg>>

(***************************************************************************)
(* The registry under concurrent callers.  net/http serves every request   *)
(* in a goroutine of its own and grpc every call, so an IngestProtoFile, a *)
(* CompileAndRegister and the lookups of a reader run at once; each is     *)
(* taken here statement by statement, a step being what the goroutine does *)
(* between two points where it holds a lock or reads shared state.         *)
(*   rg.ingest   the goroutine inside IngestProtoFile                      *)
(*   rg.compile  the goroutine inside CompileAndRegister                   *)
(*   rg.seen     what a reader's lookups returned, in order                *)
(***************************************************************************)
ConcurrentFiles == {"a.proto", "b.proto"}
ConcurrentSources == {"greeter", "echo"}
ObservedMessages == {Name("example.HelloRequest"), Name("other.Wrapper")}
ObservedMethods == {MethodPath(Name("example.Greeter"), Name("SayHello")),
                    MethodPath(Name("other.Echo"), Name("Ping"))}

NoGoroutines == [ingest |-> [pc |-> "idle", filename |-> "", content |-> ""],
                 compile |-> [pc |-> "idle", names |-> <<>>, fds |-> <<>>, i |-> 0],
                 seen |-> <<>>]

\* s.protoFilesMu is held from line 93 to the return of IngestProtoFile.
ProtoFilesMuHeld == rg.ingest.pc # "idle"
\* s.allFileDescMu is held from line 143 to the return of RegisterFiles.
AllFileDescMuHeld == rg.compile.pc \in {"messages", "methods"}

\* part_008 93-97: IngestProtoFile takes s.protoFilesMu.
IngestLock(filename, content) ==
    /\ ~crashed
    /\ rg.ingest.pc = "idle"
    /\ Len(ingestLog) < MaxConcurrentIngests
    /\ rg' = [rg EXCEPT !.ingest = [pc |-> "writeMap", filename |-> filename,
                                    content |-> content]]
    /\ UNCHANGED <<configVars, historyVars, callVars, sourceVars, fileVars, rs, cx, hr>>

\* part_008 98: s.protoFiles[filename] = content.
IngestWriteMap ==
    /\ ~crashed
    /\ rg.ingest.pc = "writeMap"
    /\ protoFiles' = [f \in DOMAIN protoFiles \cup {rg.ingest.filename} |->
                         IF f = rg.ingest.filename THEN rg.ingest.content
                         ELSE protoFiles[f]]
    /\ rg' = [rg EXCEPT !.ingest.pc = "writeNames"]
    /\ UNCHANGED <<configVars, historyVars, callVars, protoFileNames, ingestLog,
                   fileVars, rs, cx, hr>>

\* part_008 100-106: the filename is appended unless the list has it, and the lock is
\* released.
IngestWriteNames ==
    /\ ~crashed
    /\ rg.ingest.pc = "writeNames"
    /\ protoFileNames' = IF ~Contains(protoFileNames, rg.ingest.filename)
                         THEN Append(protoFileNames, rg.ingest.filename)
                         ELSE protoFileNames
    /\ ingestLog' = Append(ingestLog, <<rg.ingest.filename, rg.ingest.content>>)
    /\ rg' = [rg EXCEPT !.ingest = NoGoroutines.ingest]
    /\ UNCHANGED <<configVars, historyVars, callVars, protoFiles, fileVars, rs, cx, hr>>

\* part_008 120-121, 131-138: Compile builds the resolver over s.protoFiles and reads
\* s.protoFileNames for the call of compiler.Compile; it takes no lock.
CompileReadNames ==
    /\ ~crashed
    /\ rg.compile.pc = "idle"
    /\ compiles < MaxCompiles
    /\ rg' = [rg EXCEPT !.compile = [pc |-> "compile", names |-> protoFileNames,
                                     fds |-> <<>>, i |-> 0]]
    /\ UNCHANGED <<configVars, historyVars, callVars, sourceVars, fileVars, rs, cx, hr>>

\* What a read of s.protoFiles does while IngestProtoFile is at its write of the map:
\* the Go runtime ends the process with "concurrent map read and map write" when it
\* sees the write, and the read returns otherwise.
MapReadOutcomes == IF rg.ingest.pc = "writeMap" THEN {"read", "fatal"} ELSE {"read"}

\* part_008 138, 122-126, 143-145: compiler.Compile reads the sources of the names
\* through the accessor over s.protoFiles; an error is returned, and RegisterFiles
\* takes s.allFileDescMu otherwise.
CompileRun ==
    /\ ~crashed
    /\ rg.compile.pc = "compile"
    /\ \E outcome \in MapReadOutcomes :
          IF outcome = "fatal"
          THEN /\ crashed' = TRUE
               /\ rg' = [rg EXCEPT !.compile.pc = "fatal"]
               /\ UNCHANGED <<compiles, compileErr>>
          ELSE LET c == Compile(protoFiles, rg.compile.names)
               IN /\ UNCHANGED crashed
                  /\ IF c.err # NoErr \/ c.fds = <<>>
                     THEN /\ compileErr' = c.err
                          /\ compiles' = compiles + 1
                          /\ rg' = [rg EXCEPT !.compile = NoGoroutines.compile]
                     ELSE /\ rg' = [rg EXCEPT !.compile.pc = "messages",
                                              !.compile.fds = c.fds, !.compile.i = 1]
                          /\ UNCHANGED <<compiles, compileErr>>
    /\ UNCHANGED <<configVars, historyVars, pc, h, w, hl, ret, stream, clock, px,
                   sourceVars, allFileDescriptors, messageDescriptorRegistry, rs, cx, hr>>

\* part_008 146-160: the file is appended to the list and, under the lock of the
\* message map, its messages are put into the map.
RegisterFileMessages ==
    /\ ~crashed
    /\ rg.compile.pc = "messages"
    /\ LET fd == rg.compile.fds[rg.compile.i]
       IN /\ allFileDescriptors' = Append(allFileDescriptors, fd)
          /\ messageDescriptorRegistry' = RegisterMessages(messageDescriptorRegistry, fd, 1)
    /\ rg' = [rg EXCEPT !.compile.pc = "methods"]
    /\ UNCHANGED <<configVars, historyVars, callVars, sourceVars, compiles, compileErr,
                   rs, cx, hr>>

\* part_008 162-178: under the lock of the method map, the file's methods are put into
\* the map; after the last file RegisterFiles releases s.allFileDescMu and
\* CompileAndRegister returns nil.
RegisterFileMethods ==
    /\ ~crashed
    /\ rg.compile.pc = "methods"
    /\ methodDescriptorRegistry' =
          RegisterMethods(methodDescriptorRegistry, rg.compile.fds[rg.compile.i], 1, 1)
    /\ IF rg.compile.i = Len(rg.compile.fds)
       THEN /\ rg' = [rg EXCEPT !.compile = NoGoroutines.compile]
            /\ compiles' = compiles + 1
            /\ compileErr' = NoErr
       ELSE /\ rg' = [rg EXCEPT !.compile.pc = "messages", !.compile.i = @ + 1]
            /\ UNCHANGED <<compiles, compileErr>>
    /\ UNCHANGED <<mockVars, p, historyVars, callVars, sourceVars, allFileDescriptors,
                   messageDescriptorRegistry, rs, cx, hr>>

\* What the reader keeps of a lookup: the call, its argument, whether it found a
\* descriptor and of which file of which compilation, and for GetFileDescriptors the
\* paths of the list.
Observation(op, key, found, files) ==
    [op |-> op, key |-> key, ok |-> found # None,
     path |-> IF found = None THEN "" ELSE found[1].Path,
     source |-> IF found = None THEN "" ELSE found[1].Source,
     files |-> files]

Observe(o) ==
    /\ ~crashed
    /\ rg' = [rg EXCEPT !.seen = Append(@, o)]
    /\ UNCHANGED <<configVars, historyVars, callVars, sourceVars, fileVars, rs, cx, hr>>

\* part_008 190-195: a reader calls GetMessageDescriptor(fullName).
ReaderGetMessageDescriptor(fullName) ==
    /\ Len(rg.seen) < MaxObservations
    /\ Observe(Observation("GetMessageDescriptor", fullName,
                           GetMessageDescriptor(fullName), <<>>))

\* part_008 198-203: a reader calls GetMethodDescriptor(fullName).
ReaderGetMethodDescriptor(fullName) ==
    /\ Len(rg.seen) < MaxObservations
    /\ Observe(Observation("GetMethodDescriptor", fullName,
                           GetMethodDescriptor(fullName), <<>>))

(***************************************************************************)
(* reflection.ServerReflectionV1 and ServerReflectionV1Alpha, which differ *)
(* in the package of their message types only                              *)
(***************************************************************************)
ReflectionAPIs == {"v1", "v1alpha"}

\* The files and sources registered while the reflection stream is served.
ReflectionFiles == {"a.proto", "b.proto"}
ReflectionSources == {"greeter", "greeter2", "echo"}

\* A request: its host and its MessageRequest, <<variant, argument>>.
ReflectionRequest(host, variant, arg) == [Host |-> host, MessageRequest |-> <<variant, arg>>]
ReflectionRequests ==
    {ReflectionRequest("localhost", "ListServices", "*"),
     ReflectionRequest("", "FileContainingExtension", ""),
     ReflectionRequest("localhost", "nil", "")}
    \cup {ReflectionRequest("", "FileByFilename", f) :
            f \in {"a.proto", "grpc/reflection/v1/reflection.proto", "missing.proto"}}
    \cup {ReflectionRequest("localhost:50051", "FileContainingSymbol", n) :
            n \in {Name("example.Greeter"), Name("example.Farewell"),
                   Name("example.HelloReply"), Name("example.Greeter.SayHello")}}

\* What Recv returns when it returns no request, and what a Send returns.
RecvErrors == {EOF, StatusErrorf(Codes.Canceled, "context canceled")}
ReflectionSendOutcomes == {NoErr, StatusErrorf(Codes.Unavailable, "transport is closing")}

\* GetFileDescriptors(): a copy of the file list.
GetFileDescriptors == allFileDescriptors

\* part_008 181-187: a reader calls GetFileDescriptors(), which waits for
\* s.allFileDescMu.
ReaderGetFileDescriptors ==
    /\ ~AllFileDescMuHeld
    /\ Len(rg.seen) < MaxObservations
    /\ Observe(Observation("GetFileDescriptors", <<>>, None,
                           [i \in 1..Len(GetFileDescriptors) |-> GetFileDescriptors[i].Path]))

\* A ToFileDescriptorProto that leaves out the name of the file.
ToFileDescriptorProtoNameless(fd) ==
    [name |-> "", message_type |-> fd.Messages, service |-> fd.Services]

\* protodesc.ToFileDescriptorProto(fd)
ToFileDescriptorProto(fd) ==
    [name |-> fd.Path, message_type |-> fd.Messages, service |-> fd.Services]

\* proto.Marshal of a FileDescriptorProto: its fields with their numbers, name = 1,
\* message_type = 4, service = 6; a name that is empty is not written.
MarshalFileDescriptorProto(fdp) ==
    (IF fdp.name = "" THEN <<>> ELSE <<<<1, fdp.name>>>>)
        \o [i \in 1..Len(fdp.message_type) |-> <<4, fdp.message_type[i]>>]
        \o [i \in 1..Len(fdp.service) |-> <<6, fdp.service[i]>>]

\* proto.Unmarshal into a FileDescriptorProto.
RECURSIVE UnmarshalFileDescriptorProto(_)
UnmarshalFileDescriptorProto(b) ==
    IF b = <<>> THEN [name |-> "", message_type |-> <<>>, service |-> <<>>]
    ELSE LET rest == UnmarshalFileDescriptorProto(SubSeq(b, 1, Len(b) - 1))
             field == b[Len(b)]
         IN CASE field[1] = 1 -> [rest EXCEPT !.name = field[2]]
              [] field[1] = 4 -> [rest EXCEPT !.message_type = Append(@, field[2])]
              [] field[1] = 6 -> [rest EXCEPT !.service = Append(@, field[2])]
              [] OTHER -> rest

\* The positions of the files that match, as the two lookups match.
MatchPath(filename) ==
    {i \in 1..Len(GetFileDescriptors) : GetFileDescriptors[i].Path = filename}
MatchSymbol(symbol) ==
    {i \in 1..Len(GetFileDescriptors) :
        \/ \E k \in 1..Len(GetFileDescriptors[i].Services) :
              GetFileDescriptors[i].Services[k].FullName = symbol
        \/ \E k \in 1..Len(GetFileDescriptors[i].Messages) :
              GetFileDescriptors[i].Messages[k] = symbol}

\* A lookup that takes the file registered last among those that match.
lookupLastFileDescriptorProtoBytes(matching) ==
    IF matching = {} THEN None
    ELSE LET i == CHOOSE k \in matching : \A j \in matching : j <= k
         IN Some(MarshalFileDescriptorProto(ToFileDescriptorProto(GetFileDescriptors[i])))

\* lookupFileDescriptorProtoBytes(match): the bytes of the first file that matches.
lookupFileDescriptorProtoBytes(matching) ==
    IF matching = {} THEN None
    ELSE LET i == CHOOSE k \in matching : \A j \in matching : k <= j
         IN Some(MarshalFileDescriptorProto(ToFileDescriptorProto(GetFileDescriptors[i])))

errorResponse(host, orig, code, msg) ==
    [ValidHost |-> host, OriginalRequest |-> orig,
     MessageResponse |-> <<"ErrorResponse", <<Int32(code), msg>>>>]

\* The service names of the files from the j-th service of the i-th file on, a name
\* that was seen left out.
RECURSIVE ListServices(_, _, _, _)
ListServices(files, i, j, out) ==
    IF i > Len(files) THEN out
    ELSE IF j > Len(files[i].Services) THEN ListServices(files, i + 1, 1, out)
    ELSE ListServices(files, i, j + 1,
                      IF Contains(out, files[i].Services[j].FullName) THEN out
                      ELSE Append(out, files[i].Services[j].FullName))

\* The service names of the files, each as often as a file declares it.
RECURSIVE ListAllServices(_, _, _, _)
ListAllServices(files, i, j, out) ==
    IF i > Len(files) THEN out
    ELSE IF j > Len(files[i].Services) THEN ListAllServices(files, i + 1, 1, out)
    ELSE ListAllServices(files, i, j + 1, Append(out, files[i].Services[j].FullName))

\* A ListServices response that looks at no name it has seen.
buildListServicesResponseUnseen(host, orig) ==
    [ValidHost |-> host, OriginalRequest |-> orig,
     MessageResponse |-> <<"ListServicesResponse", ListAllServices(GetFileDescriptors, 1, 1, <<>>)>>]

buildListServicesResponse(host, orig) ==
    [ValidHost |-> host, OriginalRequest |-> orig,
     MessageResponse |-> <<"ListServicesResponse", ListServices(GetFileDescriptors, 1, 1, <<>>)>>]

buildFileByFilenameResponse(host, orig, filename) ==
    LET fdpBytes == lookupFileDescriptorProtoBytes(MatchPath(filename))
    IN IF fdpBytes = None THEN errorResponse(host, orig, Codes.NotFound, "file not found")
       ELSE [ValidHost |-> host, OriginalRequest |-> orig,
             MessageResponse |-> <<"FileDescriptorResponse", <<fdpBytes[1]>>>>]

buildFileContainingSymbolResponse(host, orig, symbol) ==
    LET fdpBytes == lookupFileDescriptorProtoBytes(MatchSymbol(symbol))
    IN IF fdpBytes = None THEN errorResponse(host, orig, Codes.NotFound, "symbol not found")
       ELSE [ValidHost |-> host, OriginalRequest |-> orig,
             MessageResponse |-> <<"FileDescriptorResponse", <<fdpBytes[1]>>>>]

\* A switch that sends nothing for a request it does not handle.
ReflectionResponseHandled(req) ==
    CASE req.MessageRequest[1] = "ListServices" ->
           Some(buildListServicesResponse(req.Host, req))
      [] req.MessageRequest[1] = "FileByFilename" ->
           Some(buildFileByFilenameResponse(req.Host, req, req.MessageRequest[2]))
      [] req.MessageRequest[1] = "FileContainingSymbol" ->
           Some(buildFileContainingSymbolResponse(req.Host, req, req.MessageRequest[2]))
      [] OTHER -> None

\* ServerReflectionInfo's switch on the request: the response it sends.
ReflectionResponse(req) ==
    CASE req.MessageRequest[1] = "ListServices" ->
           Some(buildListServicesResponse(req.Host, req))
      [] req.MessageRequest[1] = "FileByFilename" ->
           Some(buildFileByFilenameResponse(req.Host, req, req.MessageRequest[2]))
      [] req.MessageRequest[1] = "FileContainingSymbol" ->
           Some(buildFileContainingSymbolResponse(req.Host, req, req.MessageRequest[2]))
      [] OTHER ->
           Some(errorResponse(req.Host, req, Codes.Unimplemented, "request type not supported"))

\* The client opens the stream: ServerReflectionInfo is called.
ServerReflectionInfoEnter(api) ==
    /\ rs = None
    /\ rs' = Some([api |-> api, requests |-> <<>>, responses |-> <<>>, sendFailed |-> FALSE,
                   ret |-> None])
    /\ UNCHANGED <<configVars, historyVars, callVars, sourceVars, fileVars, otherVars>>

\* One turn of the loop: Recv returns a request, the response is built and sent; the
\* error of a failed Send is returned.
ServerReflectionInfoServe(req, sendErr) ==
    /\ rs # None
    /\ rs[1].ret = None
    /\ Len(rs[1].requests) < MaxRequests
    /\ LET resp == ReflectionResponse(req)
       IN rs' = Some([rs[1] EXCEPT
                        !.requests = Append(@, req),
                        !.responses = IF resp # None /\ sendErr = NoErr
                                      THEN Append(@, resp[1]) ELSE @,
                        !.sendFailed = resp # None /\ sendErr # NoErr,
                        !.ret = IF resp # None /\ sendErr # NoErr THEN Some(sendErr) ELSE @])
    /\ UNCHANGED <<configVars, historyVars, callVars, sourceVars, fileVars, otherVars>>

\* Recv returns no request: io.EOF when the client has half-closed, and nil is
\* returned; another error, which is returned.
ServerReflectionInfoRecvError(err) ==
    /\ rs # None
    /\ rs[1].ret = None
    /\ rs' = Some([rs[1] EXCEPT !.ret = Some(IF err = EOF THEN NoErr ELSE err)])
    /\ UNCHANGED <<configVars, historyVars, callVars, sourceVars, fileVars, otherVars>>

(***************************************************************************)
(* history.DefaultRegistry and its callers                                 *)
(***************************************************************************)
HistoryIDs == {"id-1", "id-2", "id-3"}
StartTimes == {1, 2}
HistoryEntries ==
    {[NoHistory EXCEPT !.ID = id, !.StartTime = t, !.State = "OPEN"] :
        id \in HistoryIDs, t \in StartTimes}

\* A caller saves an entry.
Save(entry) ==
    /\ Len(saveLog) < MaxSaves
    /\ SaveHistoryCall(entry)
    /\ UNCHANGED <<configVars, callVars, sourceVars, auxVars>>

\* sort.Slice(histories, less by StartTime) on a list: one of the orders of its
\* entries in which no entry is before one that started earlier (the sort is not
\* stable).
SortSlice(list) ==
    {[i \in 1..Len(list) |-> list[perm[i]]] :
        perm \in {q \in [1..Len(list) -> 1..Len(list)] :
                    /\ \A i, j \in 1..Len(list) : i # j => q[i] # q[j]
                    /\ \A i, j \in 1..Len(list) :
                          i < j => list[q[i]].StartTime <= list[q[j]].StartTime}}

\* A GetHistories that returns r.histories itself.
GetHistoriesShared ==
    /\ listed' = Some([shared |-> TRUE, val |-> histories])
    /\ UNCHANGED <<histories, saveLog, configVars, callVars, sourceVars, auxVars>>

\* GetHistories(): a copy of r.histories, sorted by StartTime, is returned.
GetHistories ==
    /\ \E sorted \in SortSlice(histories) :
          listed' = Some([shared |-> FALSE, val |-> sorted])
    /\ UNCHANGED <<histories, saveLog, configVars, callVars, sourceVars, auxVars>>

(***************************************************************************)
(* The specifications                                                      *)
(***************************************************************************)
Init ==
    /\ mockRegistry = EmptyMap
    /\ methodDescriptorRegistry = EmptyMap
    /\ histories = <<>>
    /\ p \in BOOLEAN
    /\ pc = "idle"
    /\ h = NoHistory
    /\ w = [proxified |-> FALSE, methodDescriptor |-> None]
    /\ hl = NoLocals
    /\ ret = NoErr
    /\ stream = NoStream
    /\ clock = 0
    /\ crashed = FALSE
    /\ px = NoProxy
    /\ protoFiles = NoSources
    /\ protoFileNames = <<>>
    /\ ingestLog = <<>>
    /\ allFileDescriptors \in RangeFiles(GlobalFiles)
    /\ messageDescriptorRegistry = EmptyMap
    /\ compiles = 0
    /\ compileErr = NoErr
    /\ registered = EmptyMap
    /\ saveLog = <<>>
    /\ listed = None
    /\ rs = None
    /\ cx = None
    /\ rg = NoGoroutines
    /\ hr = None

Next ==
    \/ \E mc \in MockConfigs : RegisterMock(mc)
    \/ \E m \in Methods : RegisterMethodDescriptor(m)
    \/ Clean
    \/ \E md \in IncomingMDs : StreamInterceptorEnter(md)
    \/ ClientCancel
    \/ HandlerGetMethodDescriptor
    \/ HandlerGetMock
    \/ HandlerRecvMsg
    \/ HandlerSleep
    \/ HandlerSendHeader
    \/ HandlerRespond
    \/ HandleNewStream
    \/ PumpClientRecv
    \/ PumpClientSend
    \/ PumpTargetRecv
    \/ PumpTargetSend
    \/ HandleFirstSignal
    \/ HandleSecondSignal
    \/ StreamInterceptorClose

Spec == Init /\ [][Next]_vars

\* A call that is handed to the proxy, with what the scheduler and the transport
\* guarantee: Handle's goroutine and the interceptor go on when they can, a receive
\* from the channel returns once the channel holds a signal, and a RecvMsg or SendMsg
\* of a pump returns once the stream's context is done.
NextProxy ==
    \/ \E m \in Methods : RegisterMethodDescriptor(m)
    \/ \E md \in IncomingMDs : StreamInterceptorEnter(md)
    \/ ClientCancel
    \/ HandlerGetMethodDescriptor
    \/ HandlerGetMock
    \/ HandleNewStream
    \/ PumpClientRecv
    \/ PumpClientSend
    \/ PumpTargetRecv
    \/ PumpTargetSend
    \/ HandleFirstSignal
    \/ HandleSecondSignal
    \/ StreamInterceptorClose

ProxyFairness ==
    /\ WF_vars(HandleFirstSignal)
    /\ WF_vars(HandleSecondSignal)
    /\ WF_vars(StreamInterceptorClose)
    /\ WF_vars(stream.ctxDone /\ PumpClientRecv)
    /\ WF_vars(stream.ctxDone /\ PumpClientSend)
    /\ WF_vars(stream.ctxDone /\ PumpTargetRecv)
    /\ WF_vars(stream.ctxDone /\ PumpTargetSend)

SpecProxy == Init /\ [][NextProxy]_vars /\ ProxyFairness

NextProtoHandlers ==
    \/ \E method \in HTTPMethods, body \in BulkUploadRequests :
          handleIngestProtoJSON(method, body)
    \/ \E method \in HTTPMethods, body \in BulkUploadRequests :
          handleUploadProtoJSON(method, body)

SpecProtoHandlers == Init /\ [][NextProtoHandlers]_vars

NextIngest == \E f \in FileNames, c \in Contents : IngestProtoFile(f, c)

SpecIngest == Init /\ [][NextIngest]_vars

NextRegistry ==
    \/ \E f \in FileNames, c \in ProtoSources :
          Len(ingestLog) < MaxSources /\ IngestProtoFile(f, c)
    \/ \E f \in FileNames, c \in ProtoSources :
          Len(ingestLog) < MaxSources /\ RegisterProtoFile(f, c)
    \/ CompileAndRegister

SpecRegistry == Init /\ [][NextRegistry]_vars

NextReflection ==
    \/ \E f \in ReflectionFiles, c \in ReflectionSources :
          Len(ingestLog) < MaxSources /\ RegisterProtoFile(f, c)
    \/ \E api \in ReflectionAPIs : ServerReflectionInfoEnter(api)
    \/ \E req \in ReflectionRequests, sendErr \in ReflectionSendOutcomes :
          ServerReflectionInfoServe(req, sendErr)
    \/ \E err \in RecvErrors : ServerReflectionInfoRecvError(err)

SpecReflection == Init /\ [][NextReflection]_vars

NextConcurrent ==
    \/ \E f \in ConcurrentFiles, c \in ConcurrentSources : IngestLock(f, c)
    \/ IngestWriteMap
    \/ IngestWriteNames
    \/ CompileReadNames
    \/ CompileRun
    \/ RegisterFileMessages
    \/ RegisterFileMethods
    \/ \E m \in ObservedMessages : ReaderGetMessageDescriptor(m)
    \/ \E m \in ObservedMethods : ReaderGetMethodDescriptor(m)
    \/ ReaderGetFileDescriptors

SpecConcurrent == Init /\ [][NextConcurrent]_vars

NextCodec ==
    \/ \E v \in CodecValues : MarshalCall(v)
    \/ \E data \in BufferSlices, v \in CodecTargets : UnmarshalCall(data, v)

SpecCodec == Init /\ [][NextCodec]_vars

NextHistory ==
    \/ \E entry \in HistoryEntries : Save(entry)
    \/ GetHistories
    \/ Clean

SpecHistory == Init /\ [][NextHistory]_vars

NextMocks == \E mc \in AnyMockConfigs : RegisterMock(mc)

SpecMocks == Init /\ [][NextMocks]_vars
(***************************************************************************)
(* Properties                                                              *)
(***************************************************************************)
Occurs(seq, x) == \E i \in 1..Len(seq) : seq[i] = x
CountRecv(seq) == Cardinality({i \in 1..Len(seq) : seq[i].Direction = "recv"})
CountSend(seq) == Cardinality({i \in 1..Len(seq) : seq[i].Direction = "send"})
IsRecv(m) == m.Direction = "recv"
IsSend(m) == m.Direction = "send"
IsPrefix(s, t) == Len(s) <= Len(t) /\ \A i \in 1..Len(s) : s[i] = t[i]
Ended == pc \in {"handlerReturned", "returned"}
Status(err) == FromError(err)
\* A JSON tree without the fields that hold their type's zero value.
WithoutZeroFields(tree) == [f \in {g \in DOMAIN tree : tree[g] # Zero(g)} |-> tree[f]]

\* The call was answered from a mock with grpcStatus 0 whose response was sent.
C1_Case ==
    /\ pc = "returned"
    /\ hl.mc # None
    /\ IsZero(hl.mc[1].GrpcStatus)
    /\ Occurs(stream.trace, "send")

\* One receive and one send on the stream, the entry CLOSED with code 0 and the
\* messages [recv, send], neither proxified, the send recognized and holding
\* mockResponse as the JSON -> message -> JSON round trip leaves it.
C1_Exchange ==
    /\ Len(stream.recvd) = 1
    /\ Len(stream.msgs) = 1
    /\ ret = NoErr
    /\ h.State = "CLOSED"
    /\ h.GrpcCode = Codes.OK
    /\ histories \in {<<>>, <<h>>}
    /\ Len(h.Messages) = 2
    /\ IsRecv(h.Messages[1])
    /\ IsSend(h.Messages[2])
    /\ ~h.Messages[1].Proxified
    /\ ~h.Messages[2].Proxified
    /\ h.Messages[2].Recognized
    /\ h.Messages[2].Payload =
          [kind |-> "tree", val |-> WithoutZeroFields(hl.mc[1].MockResponse)]

C2_Case ==
    /\ pc = "returned"
    /\ hl.mc # None
    /\ ~IsZero(hl.mc[1].GrpcStatus)
    /\ Len(stream.recvd) = 1

\* The call ended with the configured status and errorString, nothing was sent, and
\* the closed entry holds one recv message, no send message and the configured code.
C2_Outcome ==
    /\ ret.kind = "status"
    /\ hl.mc[1].GrpcStatus = GoInt(0, Status(ret)[1])
    /\ Status(ret)[2] = hl.mc[1].ErrorString
    /\ stream.msgs = <<>>
    /\ ~Occurs(stream.trace, "send") /\ ~Occurs(stream.trace, "send-failed")
    /\ h.State = "CLOSED"
    /\ histories \in {<<>>, <<h>>}
    /\ CountRecv(h.Messages) = 1
    /\ CountSend(h.Messages) = 0
    /\ hl.mc[1].GrpcStatus = GoInt(0, h.GrpcCode)

\* C2, as stated: a mock with a non-zero grpcStatus on a method with a descriptor ends
\* the call with code grpcStatus and message errorString, sends no response, and its
\* closed entry has one recv message, no send message and grpcCode = grpcStatus.
C2_Original ==
    C2_Case => C2_Outcome

\* C2, amended: the same for a grpcStatus in 1..2^31-1 whose configured headers, if
\* any, were sent: a failed SendHeader ends the call with the transport's error, and
\* a grpcStatus that is a multiple of 2^32 converts to OK.
C2_Amended ==
    (/\ C2_Case
     /\ hl.mc[1].GrpcStatus.hi = 0
     /\ hl.mc[1].GrpcStatus.lo <= 2147483647
     /\ ~Occurs(stream.trace, "header-failed")) => C2_Outcome

\* C2's case, with headers that were sent before the status.
C2_Witness ==
    /\ C2_Case
    /\ stream.header = Some({<<"h", "v">>})
    /\ ret = StatusErrorf(Codes.PermissionDenied, "nope")
    /\ h.GrpcCode = Codes.PermissionDenied
    /\ histories = <<h>>

\* C3: without a proxy, a call whose method has no descriptor or no mock ends with
\* UNIMPLEMENTED, nothing is received or sent on the stream, no message is recorded
\* and the proxy is not invoked.
C3_Unimplemented ==
    (/\ ~p
     /\ Ended
     /\ hl.methodDescriptor = None \/ hl.mc = None) =>
       /\ ret.kind = "status"
       /\ Status(ret)[1] = Codes.Unimplemented
       /\ stream.recvd = <<>>
       /\ stream.msgs = <<>>
       /\ stream.header = None
       /\ \A i \in 1..Len(stream.trace) : stream.trace[i] = "cancel"
       /\ h.Messages = <<>>
       /\ px = NoProxy
       /\ pc = "returned" => h.GrpcCode = Codes.Unimplemented /\ h.State = "CLOSED"

\* A call of a method with a descriptor and no mock, closed with UNIMPLEMENTED.
C3_Witness ==
    /\ ~p
    /\ pc = "returned"
    /\ hl.methodDescriptor # None
    /\ hl.mc = None
    /\ GetMock(FullMethod) = None
    /\ h.GrpcCode = Codes.Unimplemented

Delegated == px.state # "off"
AfterLookups == pc \notin {"idle", "getMethodDescriptor", "getMock"}

\* C4: with a proxy, a call is delegated to it exactly when the mock lookup found no
\* mock for its path; every message recorded for a delegated call is proxified and
\* every message of a call that was not delegated is not.
C4_Delegation ==
    /\ ~AfterLookups => ~Delegated
    /\ (p /\ AfterLookups) =>
          /\ Delegated <=> hl.mc = None
          /\ hl.mc = GetMock(FullMethod)
    /\ \A i \in 1..Len(h.Messages) : h.Messages[i].Proxified = Delegated
    /\ \A k \in 1..Len(histories) : \A i \in 1..Len(histories[k].Messages) :
          histories[k].Messages[i].Proxified = Delegated

\* A delegated call that recorded a frame in each direction and was closed.
C4_Witness ==
    /\ p
    /\ pc = "returned"
    /\ Delegated
    /\ hl.mc = None
    /\ histories # <<>>
    /\ \E i \in 1..Len(histories[1].Messages) : IsRecv(histories[1].Messages[i])
    /\ \E i \in 1..Len(histories[1].Messages) : IsSend(histories[1].Messages[i])
\* C5: when the upstream ends the call with a non-OK status and the target pump has
\* signalled it, Handle returns that status, whichever pump signalled first.
C5_UpstreamStatusReturned ==
    (/\ px.state = "done"
     /\ px.endAtReturn # None
     /\ px.endAtReturn[1].kind = "status") => ret = px.endAtReturn[1]

\* C5 in the interleaving the claim names: the client's half-close was signalled and
\* then the upstream's status, and the client did not give up the call.
C5_HalfCloseFirst ==
    (/\ px.state = "done"
     /\ px.c2tEnd = "EOF"
     /\ ~Occurs(stream.trace, "cancel")
     /\ px.endAtReturn # None
     /\ px.endAtReturn[1].kind = "status") => ret = px.endAtReturn[1]

\* Both directions ended with a clean EOF: the client half-closed, the upstream ended
\* the call with OK, and both pumps have stopped.
CleanEOF ==
    /\ px.c2t = "done" /\ px.c2tEnd = "EOF"
    /\ px.t2c = "done" /\ px.t2cEnd = "EOF"

\* C6: the frames sent to the upstream are a prefix of the frames received from the
\* client, the frames sent to the client are a prefix of the frames received from the
\* upstream, and the sequences are equal when both directions end with a clean EOF.
C6_Frames ==
    /\ IsPrefix(px.toUpstream, px.fromClient)
    /\ IsPrefix(px.toClient, px.fromUpstream)
    /\ Delegated => stream.msgs = px.toClient
    /\ CleanEOF => px.toUpstream = px.fromClient /\ px.toClient = px.fromUpstream

\* Two frames went each way and both directions ended with a clean EOF.
C6_Witness ==
    /\ CleanEOF
    /\ px.fromClient = <<"hello", "garbage">>
    /\ px.toUpstream = <<"hello", "garbage">>
    /\ px.fromUpstream = <<"empty", "hello">>
    /\ px.toClient = <<"empty", "hello">>
    /\ pc = "returned"

\* C7: the metadata of the incoming call is the outgoing metadata of the upstream call.
C7_MetadataPropagated ==
    px.upstreamMD # None => px.upstreamMD[1] = stream.incomingMD

\* The entry of the call, as the interceptor closes it on the handler's return.
C8_Closed ==
    /\ h.State = "CLOSED"
    /\ h.EndTime # None
    /\ h.EndTime[1] >= h.StartTime
    /\ h.GrpcCode = (CASE ret.kind = "nil" -> Codes.OK
                       [] ret.kind \in {"status", "wrapped"} -> ret.code
                       [] OTHER -> Codes.Unknown)
    /\ h.GrpcMessage = ret.msg
    /\ \A k \in 1..Len(histories) :
          /\ histories[k].State = "CLOSED"
          /\ histories[k].ID = h.ID
          /\ histories[k].EndTime = h.EndTime
          /\ histories[k].GrpcCode = h.GrpcCode
          /\ histories[k].GrpcMessage = h.GrpcMessage

\* C8: when the call has ended, whatever the handler did, its entry is CLOSED with an
\* end time not before its start time and the code and message of the status the
\* handler returned, and no entry is left OPEN.
C8_ClosedAtEnd ==
    pc \in {"returned", "panic"} => C8_Closed

\* C8 for the calls whose handler returns.
C8_ClosedOnReturn ==
    pc = "returned" => C8_Closed

\* The context was cancelled after the request was received and before the sleep ended.
CancelledWhileSleeping ==
    \E i, j, k \in 1..Len(stream.trace) :
       /\ i < j /\ j < k
       /\ stream.trace[i] = "recv"
       /\ stream.trace[j] = "cancel"
       /\ stream.trace[k] = "slept"

\* C9: a call whose context is cancelled during the delayMs sleep ends with CANCELLED,
\* and neither headers nor a response are sent after the cancellation.
C9_SleepCancelled ==
    (Ended /\ CancelledWhileSleeping) =>
       /\ ret.kind = "status"
       /\ Status(ret)[1] = Codes.Canceled
       /\ stream.header = None
       /\ stream.msgs = <<>>
       /\ \A i \in 1..Len(stream.trace) :
             stream.trace[i] \notin {"header", "header-failed", "send", "send-failed"}

\* The position of the first ingest of a filename, and the content of its last one.
FirstIngest(f) == CHOOSE k \in 1..Len(ingestLog) :
                     /\ ingestLog[k][1] = f
                     /\ \A j \in 1..(k - 1) : ingestLog[j][1] # f
LastContent(f) == LET k == CHOOSE i \in 1..Len(ingestLog) :
                              /\ ingestLog[i][1] = f
                              /\ \A j \in (i + 1)..Len(ingestLog) : ingestLog[j][1] # f
                  IN ingestLog[k][2]
Ingested == {ingestLog[k][1] : k \in 1..Len(ingestLog)}

\* The ordering list holds every ingested filename once, in first-seen order, and the
\* source map holds the content of each filename's last ingest.
C10_Sources ==
    /\ {protoFileNames[i] : i \in 1..Len(protoFileNames)} = Ingested
    /\ \A i, j \in 1..Len(protoFileNames) :
          i < j => /\ protoFileNames[i] # protoFileNames[j]
                   /\ FirstIngest(protoFileNames[i]) < FirstIngest(protoFileNames[j])
    /\ DOMAIN protoFiles = Ingested
    /\ \A f \in Ingested : protoFiles[f] = LastContent(f)

\* An ingest of a filename with the content it already has changes neither the list
\* nor the map.
C10_Reingest ==
    \A f \in FileNames, c \in Contents :
       (/\ ingestLog' = Append(ingestLog, <<f, c>>)
        /\ f \in DOMAIN protoFiles
        /\ protoFiles[f] = c) =>
          /\ protoFiles' = protoFiles
          /\ protoFileNames' = protoFileNames

\* C10: after any sequence of ingests the ordering list holds each ingested filename
\* exactly once in first-seen order, the source map holds the most recent content of
\* each, and ingesting an identical (filename, content) again changes nothing.
C10_Ingest ==
    []C10_Sources /\ [][C10_Reingest]_vars

\* A file ingested again with another content and then with the same content, another
\* file ingested in between.
C10_Witness ==
    /\ ingestLog = <<<<"b.proto", "v1">>, <<"a.proto", "v1">>, <<"b.proto", "v2">>,
                     <<"b.proto", "v2">>>>
    /\ protoFileNames = <<"b.proto", "a.proto">>
    /\ protoFiles["b.proto"] = "v2"
    /\ protoFiles["a.proto"] = "v1"
SlashFree(s) == \A i \in 1..Len(s) : s[i] # "/"
MockPairs == MockServices \X MockMethods
MockPaths == {MethodPath(pair[1], pair[2]) : pair \in MockPairs}

\* A path no RegisterMock call has named is not found.
UnregisteredNotFound ==
    \A path \in MockPaths :
       (\A pair \in DOMAIN registered : MethodPath(pair[1], pair[2]) # path) =>
          GetMock(path) = None

\* A RegisterMock call changes the result of GetMock for no other path, and no step
\* removes an entry.
C17_OtherPathsKept ==
    /\ DOMAIN mockRegistry \subseteq DOMAIN mockRegistry'
    /\ \A mc \in AnyMockConfigs :
          RegisterMock(mc) =>
             \A path \in MockPaths \ {MethodPath(mc.Service, mc.Method)} :
                MapGet(mockRegistry', path) = GetMock(path)

\* C17, as stated: GetMock("/" + service + "/" + method) finds the MockConfig most
\* recently registered for that (service, method), a path never registered is not
\* found, registering one path changes no other path's result, nothing is removed.
C17_Original ==
    /\ [](/\ \A pair \in DOMAIN registered :
               GetMock(MethodPath(pair[1], pair[2])) = Some(registered[pair])
          /\ UnregisteredNotFound)
    /\ [][C17_OtherPathsKept]_vars

\* C17, amended: the same for a service and a method whose names hold no "/"; in
\* general the path finds the MockConfig most recently registered under that path,
\* which another (service, method) with the same concatenation may have given.
C17_Amended ==
    /\ [](/\ \A pair \in DOMAIN registered :
               SlashFree(pair[1]) /\ SlashFree(pair[2]) =>
                  GetMock(MethodPath(pair[1], pair[2])) = Some(registered[pair])
          /\ \A path \in DOMAIN mockRegistry :
               LET mc == mockRegistry[path]
               IN /\ MethodPath(mc.Service, mc.Method) = path
                  /\ <<mc.Service, mc.Method>> \in DOMAIN registered
                  /\ registered[<<mc.Service, mc.Method>>] = mc
          /\ UnregisteredNotFound)
    /\ [][C17_OtherPathsKept]_vars

\* Two paths of plain names are registered and found, a third was never registered,
\* and two pairs whose names concatenate to one path were both registered.
C17_Witness ==
    /\ <<Name("a"), Name("b")>> \in DOMAIN registered
    /\ <<Name("a"), Name("c")>> \in DOMAIN registered
    /\ registered[<<Name("a"), Name("b")>>].GrpcStatus = GoInt(0, Codes.NotFound)
    /\ GetMock(MethodPath(Name("a"), Name("b"))) = Some(registered[<<Name("a"), Name("b")>>])
    /\ GetMock(MethodPath(Name("a"), Name("c"))) = Some(registered[<<Name("a"), Name("c")>>])
    /\ GetMock(MethodPath(<<"a", "/", "b">>, Name("b"))) = None
    /\ <<Name("a"), <<"b", "/", "c">>>> \in DOMAIN registered
    /\ <<<<"a", "/", "b">>, Name("c")>> \in DOMAIN registered
IDs(list) == {list[i].ID : i \in 1..Len(list)}
UniqueIDs(list) == \A i, j \in 1..Len(list) : i # j => list[i].ID # list[j].ID
Positions(list, id) == {i \in 1..Len(list) : list[i].ID = id}

\* What a Save of entry makes of the list: the entry with its id replaced where it
\* is, or the entry appended, and every other entry as it was.
SavedInto(before, after, entry) ==
    IF entry.ID \in IDs(before)
    THEN /\ Len(after) = Len(before)
         /\ \A i \in 1..Len(before) :
               after[i] = IF before[i].ID = entry.ID THEN entry ELSE before[i]
    ELSE /\ Len(after) = Len(before) + 1
         /\ after[Len(after)] = entry
         /\ \A i \in 1..Len(before) : after[i] = before[i]

\* C18: the history list holds at most one entry per id; a Save of an id already
\* present replaces that entry in place, a Save of a new id appends exactly one
\* entry, and no other entry is changed.
C18_SaveByID ==
    /\ []UniqueIDs(histories)
    /\ [][\A entry \in HistoryEntries :
             Save(entry) => SavedInto(histories, histories', entry)]_vars

\* An entry was replaced in place between two others.
C18_Witness ==
    /\ Len(saveLog) = 3
    /\ saveLog[1].ID = "id-2" /\ saveLog[2].ID = "id-1" /\ saveLog[3].ID = "id-2"
    /\ saveLog[1].StartTime = 1 /\ saveLog[3].StartTime = 2
    /\ Len(histories) = 2
    /\ histories[1] = saveLog[3]
    /\ histories[2] = saveLog[2]

Ascending(list) == \A i, j \in 1..Len(list) : i < j => list[i].StartTime <= list[j].StartTime
SameEntries(a, b) ==
    /\ Len(a) = Len(b)
    /\ \A x \in {a[i] : i \in 1..Len(a)} \cup {b[i] : i \in 1..Len(b)} :
          Cardinality({i \in 1..Len(a) : a[i] = x}) = Cardinality({i \in 1..Len(b) : b[i] = x})

\* C19: GetHistories returns exactly the stored entries, sorted by start time
\* ascending, and leaves the stored list as it is; a Save or a Clean made afterwards
\* does not change the list that was returned.
C19_ListIsSortedCopy ==
    /\ [][GetHistories =>
             /\ histories' = histories
             /\ listed' # None
             /\ SameEntries(listed'[1].val, histories)
             /\ Ascending(listed'[1].val)]_vars
    /\ [][((\E entry \in HistoryEntries : Save(entry)) \/ Clean) =>
             \/ listed = None /\ listed' = None
             \/ listed # None /\ listed' # None /\ listed'[1].val = listed[1].val]_vars

\* A list of two entries was returned in another order than the stored one, and the
\* registry was changed afterwards.
C19_Witness ==
    /\ listed # None
    /\ Len(listed[1].val) = 2
    /\ listed[1].val[1].StartTime = 1
    /\ listed[1].val[2].StartTime = 2
    /\ listed[1].val[1].ID = "id-2"
    /\ Len(histories) = 2
    /\ histories[1].ID = "id-1"
    /\ histories[1].StartTime = 1
    /\ histories[2].ID = "id-2"
    /\ histories[2].StartTime = 2
    /\ Len(saveLog) = 3

\* The entry last saved for an id since the last Clean, and the place of its first Save.
LastSaved(id) == saveLog[CHOOSE k \in Positions(saveLog, id) :
                            \A j \in Positions(saveLog, id) : j <= k]
FirstSaved(id) == CHOOSE k \in Positions(saveLog, id) :
                     \A j \in Positions(saveLog, id) : k <= j

\* C20: after a Clean, GetHistories returns an empty list until the next Save; the
\* entries saved after a Clean are kept: the list holds, for every id saved since the
\* last Clean, the entry last saved, and nothing else.
C20_Clean ==
    /\ [](/\ IDs(histories) = IDs(saveLog)
          /\ \A i \in 1..Len(histories) : histories[i] = LastSaved(histories[i].ID)
          /\ \A i, j \in 1..Len(histories) :
                i < j => FirstSaved(histories[i].ID) < FirstSaved(histories[j].ID))
    /\ [][Clean => histories' = <<>>]_vars
    /\ [][(GetHistories /\ saveLog = <<>>) => listed'[1].val = <<>>]_vars

\* A list was returned, the registry was cleaned, an empty list would be returned
\* now; and (in another state) an entry saved after the Clean is the whole list.
C20_Witness ==
    /\ listed # None
    /\ Len(listed[1].val) = 2
    /\ Len(saveLog) = 1
    /\ histories = <<saveLog[1]>>
    /\ \A i \in 1..2 : listed[1].val[i].ID # saveLog[1].ID
\* A step that made a Compile call, and the files that step appended to the file list.
CompileStep == compiles' = compiles + 1
RegisteredNow == SubSeq(allFileDescriptors', Len(allFileDescriptors) + 1, Len(allFileDescriptors'))

\* A failed CompileAndRegister or RegisterProtoFile leaves the three indices as they
\* were, and the sources hold every ingest made, that of the failing call included.
C11_Failure ==
    (CompileStep /\ compileErr' # NoErr) =>
        /\ allFileDescriptors' = allFileDescriptors
        /\ messageDescriptorRegistry' = messageDescriptorRegistry
        /\ methodDescriptorRegistry' = methodDescriptorRegistry
        /\ C10_Sources'

\* A CompileAndRegister over sources that compile succeeds, whatever failed before,
\* and registers every ingested file with the content last ingested for it.
C11_Recovery ==
    (CompileAndRegister /\ Compile(protoFiles, protoFileNames).err = NoErr) =>
        /\ compileErr' = NoErr
        /\ Len(RegisteredNow) = Len(protoFileNames)
        /\ \A i \in 1..Len(protoFileNames) :
              /\ RegisteredNow[i].Path = protoFileNames[i]
              /\ RegisteredNow[i].Source = LastContent(protoFileNames[i])

\* C11: when CompileAndRegister or RegisterProtoFile fails, the file list, the message
\* map and the method map are unchanged and every ingested source, the offending one
\* included, is retained; once corrected content is ingested under the offending
\* filename, a CompileAndRegister succeeds and registers all the ingested files.
C11_CompileError ==
    /\ []C10_Sources
    /\ [][C11_Failure]_vars
    /\ [][C11_Recovery]_vars

\* A compile failed on a.proto and registered nothing; a.proto was ingested again,
\* corrected, and the second compile registered both files.
C11_Witness ==
    /\ ingestLog = <<<<"b.proto", "echo">>, <<"a.proto", "broken">>, <<"a.proto", "greeter">>>>
    /\ compiles = 2
    /\ compileErr = NoErr
    /\ Len(allFileDescriptors) = Cardinality(GlobalFiles) + 2
    /\ allFileDescriptors[Len(allFileDescriptors)].Path = "a.proto"
    /\ allFileDescriptors[Len(allFileDescriptors)].Source = "greeter"

\* The orders in which the filenames of a list can have been ingested first.
Orders(names) ==
    {[i \in 1..Len(names) |-> names[q[i]]] :
        q \in {r \in [1..Len(names) -> 1..Len(names)] :
                  \A i, j \in 1..Len(names) : i # j => r[i] # r[j]}}

\* What CompileAndRegister made of the sources is what it makes of them in any other
\* order of the filenames: the same error or none, the same maps, the same files.
C12_AnyOrder ==
    CompileAndRegister =>
        \A names \in Orders(protoFileNames) :
            LET other == CompiledAndRegistered(Indices, protoFiles, names)
            IN /\ (compileErr' = NoErr) <=> (other.err = NoErr)
               /\ messageDescriptorRegistry' = other.ix.messages
               /\ methodDescriptorRegistry' = other.ix.methods
               /\ Range(allFileDescriptors') = Range(other.ix.files)
               /\ Len(allFileDescriptors') = Len(other.ix.files)

\* A file that imports a.proto and was ingested before it compiles with it.
C12_ImportLater ==
    \A f \in FileNames \ {"a.proto"}, c \in {"greeter", "greeter2"} :
        (/\ CompileStep
         /\ protoFileNames' = <<f, "a.proto">>
         /\ protoFiles'[f] = "echo"
         /\ protoFiles'["a.proto"] = c) =>
            /\ compileErr' = NoErr
            /\ RegisteredNow = <<FileDescriptor(f, "echo"), FileDescriptor("a.proto", c)>>

\* C12: two orders of ingest that end with the same sources make CompileAndRegister
\* succeed or fail alike and, on success, leave the same message map, the same method
\* map and the same set of registered files; a file ingested before the file it
\* imports compiles.
C12_OrderIndependence ==
    /\ [][C12_AnyOrder]_vars
    /\ [][C12_ImportLater]_vars

\* b.proto imports a.proto and was ingested first; CompileAndRegister registered b.proto
\* before a.proto.
C12_Witness ==
    /\ ingestLog = <<<<"b.proto", "echo">>, <<"a.proto", "greeter">>>>
    /\ compiles = 1
    /\ compileErr = NoErr
    /\ Len(allFileDescriptors) = Cardinality(GlobalFiles) + 2
    /\ allFileDescriptors[Len(allFileDescriptors)].Path = "a.proto"
    /\ MethodPath(Name("other.Echo"), Name("Ping")) \in DOMAIN methodDescriptorRegistry
    /\ Name("example.HelloRequest") \in DOMAIN messageDescriptorRegistry

\* A turn of ServerReflectionInfo's loop that sent a response, its request and its
\* response.
Answered ==
    /\ rs # None /\ rs' # None
    /\ Len(rs'[1].requests) = Len(rs[1].requests) + 1
    /\ Len(rs'[1].responses) = Len(rs[1].responses) + 1
AnsweredRequest == rs'[1].requests[Len(rs'[1].requests)]
Answer == rs'[1].responses[Len(rs'[1].responses)]

\* The places <<file, service>> of the file list where a service name is declared, and
\* the order of two names by their first places.
Declared(name) ==
    {<<i, k>> \in (1..Len(allFileDescriptors)) \X (1..2) :
        /\ k <= Len(allFileDescriptors[i].Services)
        /\ allFileDescriptors[i].Services[k].FullName = name}
FirstBefore(n1, n2) ==
    \E x \in Declared(n1) :
        \A y \in Declared(n2) : x[1] < y[1] \/ (x[1] = y[1] /\ x[2] < y[2])

C14_FileByFilename ==
    [][(/\ Answered
        /\ AnsweredRequest.MessageRequest[1] = "FileByFilename"
        /\ Answer.MessageResponse[1] = "FileDescriptorResponse") =>
          /\ Len(Answer.MessageResponse[2]) = 1
          /\ UnmarshalFileDescriptorProto(Answer.MessageResponse[2][1]).name
                = AnsweredRequest.MessageRequest[2]]_vars

\* a.proto was asked for and its descriptor was sent.
C14_Witness ==
    /\ rs # None
    /\ Len(rs[1].responses) = 2
    /\ rs[1].requests[2].MessageRequest = <<"FileByFilename", "a.proto">>
    /\ rs[1].responses[2].MessageResponse[1] = "FileDescriptorResponse"
    /\ UnmarshalFileDescriptorProto(rs[1].responses[2].MessageResponse[2][1]).service # <<>>

\* The file a lookup is to find: the first of the file list that has the path, or that
\* declares a service or a top-level message of the name.
HasPath(fd, path) == fd.Path = path
DeclaresSymbol(fd, fqn) ==
    fqn \in Range(fd.Messages) \cup {svc.FullName : svc \in Range(fd.Services)}
Wanted(req, fd) ==
    IF req.MessageRequest[1] = "FileByFilename" THEN HasPath(fd, req.MessageRequest[2])
    ELSE DeclaresSymbol(fd, req.MessageRequest[2])

\* C15: FileByFilename and FileContainingSymbol answer with the first file of the file
\* list that matches, and with the ErrorResponse NOT_FOUND exactly when no file matches.
C15_FirstMatch ==
    [][(Answered /\ AnsweredRequest.MessageRequest[1] \in {"FileByFilename", "FileContainingSymbol"}) =>
          LET hits == {i \in 1..Len(allFileDescriptors) :
                          Wanted(AnsweredRequest, allFileDescriptors[i])}
          IN IF hits = {}
             THEN /\ Answer.MessageResponse[1] = "ErrorResponse"
                  /\ Answer.MessageResponse[2][1] = Codes.NotFound
             ELSE /\ Answer.MessageResponse[1] = "FileDescriptorResponse"
                  /\ \E i \in hits :
                        /\ \A j \in hits : i <= j
                        /\ LET fdp == UnmarshalFileDescriptorProto(Answer.MessageResponse[2][1])
                           IN /\ fdp.name = allFileDescriptors[i].Path
                              /\ fdp.message_type = allFileDescriptors[i].Messages
                              /\ fdp.service = allFileDescriptors[i].Services]_vars

\* Two files of the list declare example.Greeter, the second with another method; the
\* answer to FileContainingSymbol is the first; and a name no file declares at top
\* level was answered with NOT_FOUND.
C15_Witness ==
    /\ rs # None
    /\ Len(rs[1].responses) = 2
    /\ Len(allFileDescriptors) = Cardinality(GlobalFiles) + 2
    /\ allFileDescriptors[Len(allFileDescriptors)].Source = "greeter2"
    /\ allFileDescriptors[Len(allFileDescriptors) - 1].Source = "greeter"
    /\ rs[1].requests[1].MessageRequest = <<"FileContainingSymbol", Name("example.Greeter.SayHello")>>
    /\ rs[1].responses[1].MessageResponse = <<"ErrorResponse", <<Codes.NotFound, "symbol not found">>>>
    /\ rs[1].requests[2].MessageRequest = <<"FileContainingSymbol", Name("example.Greeter")>>
    /\ rs[1].responses[2].MessageResponse[1] = "FileDescriptorResponse"
    /\ Len(UnmarshalFileDescriptorProto(rs[1].responses[2].MessageResponse[2][1]).service) = 1

Handled == {"ListServices", "FileByFilename", "FileContainingSymbol"}

\* Every request but one whose Send failed has its response, at its place, with the
\* request's host and the request; a variant that is not handled has UNIMPLEMENTED.
C16_Responses ==
    rs # None =>
        /\ Len(rs[1].responses) = Len(rs[1].requests) - (IF rs[1].sendFailed THEN 1 ELSE 0)
        /\ \A i \in 1..Len(rs[1].responses) :
              /\ rs[1].responses[i].ValidHost = rs[1].requests[i].Host
              /\ rs[1].responses[i].OriginalRequest = rs[1].requests[i]
              /\ rs[1].requests[i].MessageRequest[1] \notin Handled =>
                    /\ rs[1].responses[i].MessageResponse[1] = "ErrorResponse"
                    /\ rs[1].responses[i].MessageResponse[2][1] = Codes.Unimplemented

\* What ends the stream: the client's half-close with success, a failed Recv or a
\* failed Send with its error; a response that was sent does not end it.
C16_Return ==
    /\ ServerReflectionInfoRecvError(EOF) => rs'[1].ret = Some(NoErr)
    /\ \A err \in RecvErrors \ {EOF} :
          ServerReflectionInfoRecvError(err) => rs'[1].ret = Some(err)
    /\ \A req \in ReflectionRequests :
          /\ ServerReflectionInfoServe(req, NoErr) =>
                /\ rs'[1].ret = None
                /\ Len(rs'[1].responses) = Len(rs[1].responses) + 1
          /\ \A sendErr \in ReflectionSendOutcomes \ {NoErr} :
                ServerReflectionInfoServe(req, sendErr) =>
                    /\ rs'[1].ret = Some(sendErr)
                    /\ rs'[1].responses = rs[1].responses

\* C16: the reflection stream, v1 or v1alpha, sends one response for every request, in
\* the order of the requests, with the request's host as validHost and the request as
\* originalRequest; a variant it does not handle gets the ErrorResponse UNIMPLEMENTED
\* and the stream goes on; it returns success when the client half-closes and the error
\* of a Recv or a Send that fails.
C16_Stream ==
    /\ []C16_Responses
    /\ [][C16_Return]_vars

\* A v1alpha stream answered a request it does not handle, then a ListServices
\* request, and returned success at the half-close.
C16_Witness ==
    /\ rs # None
    /\ rs[1].api = "v1alpha"
    /\ Len(rs[1].responses) = 2
    /\ rs[1].requests[1].MessageRequest[1] = "FileContainingExtension"
    /\ rs[1].responses[1].MessageResponse = <<"ErrorResponse", <<Codes.Unimplemented, "request type not supported">>>>
    /\ rs[1].responses[2].MessageResponse[1] = "ListServicesResponse"
    /\ rs[1].ret = Some(NoErr)

\* What the codec's calls are to return.
C21_Marshal ==
    (cx # None /\ cx[1].marshal # None) =>
        LET c == cx[1].marshal[1]
        IN IF c.v[1] = "bytes"
           THEN c.err = NoErr /\ Materialize(c.data) = c.v[2]
           ELSE c.data = ParentMarshal(c.v).data /\ c.err = ParentMarshal(c.v).err
C21_Unmarshal ==
    (cx # None /\ cx[1].unmarshal # None) =>
        LET c == cx[1].unmarshal[1]
        IN IF c.v[1] = "holder"
           THEN c.err = NoErr /\ c.out = <<"holder", Materialize(c.data)>>
           ELSE c.out = ParentUnmarshal(c.data, c.v).v /\ c.err = ParentUnmarshal(c.data, c.v).err
C21_RoundTrip ==
    \A v \in CodecTargets :
        (/\ cx # None /\ cx[1].marshal # None
         /\ cx[1].marshal[1].v[1] = "bytes"
         /\ v[1] = "holder"
         /\ UnmarshalCall(cx[1].marshal[1].data, v)) =>
            /\ cx'[1].unmarshal[1].err = NoErr
            /\ cx'[1].unmarshal[1].out = <<"holder", cx[1].marshal[1].v[2]>>

\* C21: Marshal(v) returns the bytes of v when v is a byte buffer and the parent
\* codec's result otherwise; Unmarshal(data, v) stores the bytes of the frame into v
\* when v holds a byte buffer and is the parent codec's otherwise; what Marshal made of
\* a byte buffer b, unmarshalled into a holder, is b; the codec's name is "multiplex".
C21_Codec ==
    /\ [](cx # None => cx[1].name = "multiplex")
    /\ []C21_Marshal
    /\ []C21_Unmarshal
    /\ [][C21_RoundTrip]_vars

\* The buffer 8 1 was marshalled and what came of it was unmarshalled into a holder of
\* another buffer.
C21_Witness ==
    /\ cx # None
    /\ cx[1].marshal # None /\ cx[1].unmarshal # None
    /\ cx[1].marshal[1].v = <<"bytes", <<8, 1>>>>
    /\ cx[1].unmarshal[1].data = cx[1].marshal[1].data
    /\ cx[1].unmarshal[1].v = <<"holder", <<1>>>>
    /\ cx[1].unmarshal[1].out = <<"holder", <<8, 1>>>>

\* The call was answered from a mock with grpcStatus 0 whose mockResponse names a field
\* the output type does not have, the request received.
C22_Case ==
    /\ pc = "returned"
    /\ hl.mc # None
    /\ hl.methodDescriptor # None
    /\ IsZero(hl.mc[1].GrpcStatus)
    /\ ~(DOMAIN hl.mc[1].MockResponse \subseteq Fields(hl.methodDescriptor[1].Output))
    /\ Len(stream.recvd) = 1

\* The call ended with INTERNAL, no response message was delivered, and the closed
\* entry holds the received message, no send message and the code INTERNAL.
C22_Outcome ==
    /\ ret.kind = "status"
    /\ Status(ret)[1] = Codes.Internal
    /\ stream.msgs = <<>>
    /\ h.State = "CLOSED"
    /\ h.EndTime # None
    /\ h.GrpcCode = Codes.Internal
    /\ histories \in {<<>>, <<h>>}
    /\ CountRecv(h.Messages) = 1
    /\ CountSend(h.Messages) = 0

\* C22, as stated: a mock with grpcStatus 0 whose mockResponse does not conform to the
\* output type ends the call with INTERNAL after the request was received, delivers no
\* response message, and its entry is CLOSED with grpcCode INTERNAL.
C22_Original ==
    C22_Case => C22_Outcome

\* C22, amended: the same when the configured headers, if any, were sent; a failed
\* SendHeader ends the call with its own error before the response is built.
C22_Amended ==
    (C22_Case /\ ~Occurs(stream.trace, "header-failed")) => C22_Outcome

\* C22's case with headers that were sent and a delay that was slept.
C22_Witness ==
    /\ C22_Case
    /\ stream.header = Some({<<"h", "v">>})
    /\ Occurs(stream.trace, "slept")
    /\ ret = StatusErrorf(Codes.Internal, "json->message")
    /\ histories = <<h>>
    /\ h.GrpcCode = Codes.Internal

\* The message names and the method paths of the sources.
MessageNames ==
    UNION {Range(Parse(c)[1].Messages) : c \in {d \in ProtoSources : Parse(d) # None}}
MethodPaths ==
    UNION {UNION {{MethodPath(svc.FullName, m.Name) : m \in Range(svc.Methods)} :
                     svc \in Range(Parse(c)[1].Services)} :
              c \in {d \in ProtoSources : Parse(d) # None}}

\* C23: once GetMessageDescriptor(name) has returned a descriptor it returns that
\* descriptor ever after, whatever is ingested and compiled: the first file to declare
\* a message name has it, and no entry is removed or replaced.
C23_FirstWriterWins ==
    [][\A name \in MessageNames :
          GetMessageDescriptor(name) # None =>
              GetMessageDescriptor(name)' = GetMessageDescriptor(name)]_vars

\* a.proto was compiled, ingested with other content that declares the same messages
\* and compiled again; the message has the descriptor of the first compilation.
C23_Witness ==
    /\ compiles = 2
    /\ compileErr = NoErr
    /\ Len(allFileDescriptors) = Cardinality(GlobalFiles) + 2
    /\ allFileDescriptors[Len(allFileDescriptors) - 1].Source = "greeter"
    /\ allFileDescriptors[Len(allFileDescriptors)].Source = "greeter2"
    /\ GetMessageDescriptor(Name("example.HelloReply")) =
          Some([FullName |-> Name("example.HelloReply"), Path |-> "a.proto", Source |-> "greeter"])

\* C24: after a successful CompileAndRegister, GetMethodDescriptor of the path
\* "/" + service + "/" + method returns, for every method of every service of the
\* compiled files, the descriptor that compilation made, whatever was registered for
\* the path before; and a path that is registered stays registered.
C24_LastWriterWins ==
    /\ [][(CompileStep /\ compileErr' = NoErr) =>
             \A i \in 1..Len(RegisteredNow) :
                 \A k \in 1..Len(RegisteredNow[i].Services) :
                     \A j \in 1..Len(RegisteredNow[i].Services[k].Methods) :
                         MapGet(methodDescriptorRegistry',
                                MethodPath(RegisteredNow[i].Services[k].FullName,
                                           RegisteredNow[i].Services[k].Methods[j].Name))
                           = Some(MethodDescriptor(RegisteredNow[i], k, j))]_vars
    /\ [][\A path \in MethodPaths :
             GetMethodDescriptor(path) # None => GetMethodDescriptor(path)' # None]_vars

\* a.proto was compiled a second time with a Greeter whose SayHello has other types;
\* the path has the descriptor of the second compilation, and the paths of b.proto,
\* compiled with it, are registered.
C24_Witness ==
    /\ compiles = 2
    /\ compileErr = NoErr
    /\ ingestLog = <<<<"a.proto", "greeter">>, <<"b.proto", "echo">>, <<"a.proto", "greeter2">>>>
    /\ Len(allFileDescriptors) = Cardinality(GlobalFiles) + 3
    /\ GetMethodDescriptor(FullMethod) =
          Some([Input |-> Name("example.HelloReply"), Output |-> Name("example.HelloRequest"),
                Path |-> "a.proto", Source |-> "greeter2"])
    /\ GetMethodDescriptor(MethodPath(Name("other.Echo"), Name("Ping"))) # None

\* Handle leaves its first wait with a signal: a genuine error is what it returns, at
\* once; with the half-close sentinel it goes on to its second wait.
C25_First ==
    (pc = "proxy" /\ px.state = "running" /\ px'.state # "running") =>
        /\ px.errCh # <<>>
        /\ IF Head(px.errCh) \notin {NoErr, EOF}
           THEN pc' = "handlerReturned" /\ ret' = Head(px.errCh) /\ px'.state = "done"
           ELSE pc' = "proxy" /\ px'.state = "waitSecond"

\* Handle leaves its second wait with a signal, whatever it is, and returns success.
C25_Second ==
    (pc = "proxy" /\ px.state = "waitSecond" /\ px'.state # "waitSecond") =>
        /\ px.errCh # <<>>
        /\ pc' = "handlerReturned" /\ ret' = NoErr /\ px'.state = "done"

\* C25: Proxy.Handle waits for the first signal of a pump; a genuine error, neither nil
\* nor io.EOF, is returned at once, the other pump not waited for; otherwise Handle
\* waits for the second signal and returns success.
C25_Signals ==
    /\ [][C25_First]_vars
    /\ [][C25_Second]_vars
    /\ [](px.state = "waitSecond" => pc = "proxy")

\* Handle returned the upstream's status while the client's pump was receiving.
C25_Witness ==
    /\ pc = "handlerReturned"
    /\ px.state = "done"
    /\ ret = StatusErrorf(Codes.NotFound, "no such thing")
    /\ px.c2t = "recv"
    /\ px.errCh = <<>>

\* C26: whenever the handler is on the mock path, where it allocates the request
\* message from methodDescriptor.Input(), it has a method descriptor; a call to a
\* method with a mock and without a descriptor, a proxy configured, ends with a status
\* and dereferences no missing descriptor.
C26_DescriptorOnMockPath ==
    /\ ~crashed
    /\ (hl.mc # None /\ pc \notin {"idle", "getMethodDescriptor", "getMock"}) =>
          hl.methodDescriptor # None

\* C27: when the client half-closes a proxied call, the proxy half-closes its upstream
\* stream, so that an upstream that waits for the end of the requests can reply and
\* Handle returns: once the client's pump has signalled the half-close, CloseSend was
\* called on the upstream stream.
C27_UpstreamHalfClosed ==
    (px.c2t = "done" /\ px.c2tEnd = "EOF") => px.closeSent

\* C28: within one call, a proxied call whose two pumps record on the same wrapped
\* stream included, every recorded message appears exactly once in the history's
\* messages and in temporal order: once no recording is under way, the messages are as
\* many "recv" as frames received from the client and as many "send" as frames given
\* to the wrapped stream's SendMsg, and their timestamps never decrease.
C28_Recorded ==
    (Delegated /\ px.recC = None /\ px.recT = None) =>
        /\ CountRecv(h.Messages) = Len(px.fromClient)
        /\ CountSend(h.Messages) = Len(px.fromUpstream)
        /\ \A i, j \in 1..Len(h.Messages) :
              i < j => h.Messages[i].Timestamp <= h.Messages[j].Timestamp

\* The method paths a file's descriptor brings to the method map.
MethodsOf(fd) ==
    UNION {{MethodPath(svc.FullName, m.Name) : m \in Range(svc.Methods)} :
              svc \in Range(fd.Services)}

\* C29: a successful CompileAndRegister extends the file list, the message map and
\* the method map atomically, no concurrent reader observes a partially registered
\* batch: a reader that found a message of a compiled file finds, in every later
\* lookup, the methods of that file.
C29_Atomic ==
    \A i, j \in 1..Len(rg.seen) :
        (/\ i < j
         /\ rg.seen[i].op = "GetMessageDescriptor" /\ rg.seen[i].ok
         /\ rg.seen[j].op = "GetMethodDescriptor"
         /\ rg.seen[j].key \in MethodsOf(FileDescriptor(rg.seen[i].path, rg.seen[i].source)))
            => rg.seen[j].ok

\* C30: the accesses to the ingested sources are serialized between readers and
\* writers: no step of a compilation that reads s.protoFiles or s.protoFileNames is
\* taken while an IngestProtoFile holds the lock under which it writes them.
C30_Serialized ==
    [][(rg.compile.pc \in {"idle", "compile"} /\ rg'.compile # rg.compile) =>
          ~ProtoFilesMuHeld]_vars

\* C31: after any sequence of IngestProtoFile, CompileAndRegister and RegisterProtoFile
\* calls the global file list holds at most one file descriptor per path: registering
\* a file whose path the list has does not append it again.
C31_OnePerPath ==
    \A i, j \in 1..Len(allFileDescriptors) :
        allFileDescriptors[i].Path = allFileDescriptors[j].Path => i = j

\* The ingested file a lookup is about, when the sources were last compiled with
\* success: the file of the path asked for, or the file whose source declares the
\* symbol asked for.
AskedOf(req) ==
    IF compileErr # NoErr THEN {}
    ELSE IF req.MessageRequest[1] = "FileByFilename"
    THEN {f \in DOMAIN protoFiles : f = req.MessageRequest[2]}
    ELSE IF req.MessageRequest[1] = "FileContainingSymbol"
    THEN {f \in DOMAIN protoFiles :
             /\ Parse(protoFiles[f]) # None
             /\ req.MessageRequest[2] \in Declares(Parse(protoFiles[f])[1])}
    ELSE {}

\* C32: after a registered file is ingested again with changed content and compiled
\* with success, FileByFilename for its path and FileContainingSymbol for its symbols
\* answer with the descriptor built from the new content, whose methods are the ones
\* GetMethodDescriptor returns.
C32_HotReload ==
    [][Answered =>
          \A f \in AskedOf(AnsweredRequest) :
              /\ Answer.MessageResponse[1] = "FileDescriptorResponse"
              /\ LET fdp == UnmarshalFileDescriptorProto(Answer.MessageResponse[2][1])
                     new == FileDescriptor(f, protoFiles[f])
                 IN /\ fdp.name = f
                    /\ fdp.message_type = new.Messages
                    /\ fdp.service = new.Services
                    /\ \A i \in 1..Len(fdp.service) :
                          \A m \in Range(fdp.service[i].Methods) :
                              LET d == GetMethodDescriptor(MethodPath(fdp.service[i].FullName, m.Name))
                              IN /\ d # None
                                 /\ d[1].Input = m.Input
                                 /\ d[1].Output = m.Output]_vars

\* C33: a history Message is appended for a SendMsg or RecvMsg of the wrapped stream
\* if and only if the underlying stream's call succeeded: on the mock path the call's
\* messages are as many "recv" as frames the underlying RecvMsg delivered and as many
\* "send" as messages the underlying SendMsg accepted.
C33_RecordedIffSucceeded ==
    ~Delegated =>
        /\ CountRecv(h.Messages) = Len(stream.recvd)
        /\ CountSend(h.Messages) = Len(stream.msgs)

\* What the history is to hold for the raw frame f of a direction: the JSON tree of the
\* frame decoded against the method's input type (recv) or output type (send) with
\* recognized=true when a descriptor is known and the frame decodes, and else the
\* base64 of the frame with recognized=false and no payload.
RawFrameRecorded(m, f) ==
    LET dyn == IF w.methodDescriptor = None THEN None
               ELSE ProtoUnmarshal(f, IF IsRecv(m) THEN w.methodDescriptor[1].Input
                                      ELSE w.methodDescriptor[1].Output)
        b == IF dyn = None THEN None ELSE ProtoJSONMarshal(dyn[1])
    IN IF b # None
       THEN /\ m.Recognized
            /\ m.PayloadString.enc = "json" /\ m.PayloadString.val = b[1]
            /\ m.Payload.kind = "tree" /\ m.Payload.val = b[1]
       ELSE /\ ~m.Recognized
            /\ m.PayloadString.enc = "base64" /\ m.PayloadString.val = f
            /\ m.Payload.kind = "nil"

\* C34: a raw byte frame that passes through the wrapped stream of a proxied call, in
\* either direction, is recorded as RawFrameRecorded says: every message of the
\* call's history is the record of a frame received from the client (recv) or from the
\* upstream (send).
C34_RawFrames ==
    Delegated =>
        \A k \in 1..Len(h.Messages) :
            \E f \in Range(IF IsRecv(h.Messages[k]) THEN px.fromClient ELSE px.fromUpstream) :
                RawFrameRecorded(h.Messages[k], f)

\* C35: while a call is OPEN each message recorded on its wrapped stream is written
\* into the call's entry of the history registry: the entry the registry holds for the
\* call, which a List returns, has the messages recorded so far.
C35_EntryFollowsCall ==
    (~crashed /\ pc \notin {"idle", "returned"}) =>
        \A i \in 1..Len(histories) :
            histories[i].ID = h.ID => histories[i].Messages = h.Messages

\* C36: if Clean runs while a call is OPEN, the call's closing SaveHistory creates its
\* entry again: when the interceptor closes the call, the registry holds exactly one
\* entry with the call's ID, and it is CLOSED with the messages recorded in the call
\* and the startTime the call was opened with.
C36_RecreatedOnClose ==
    [][(pc = "handlerReturned" /\ pc' = "returned") =>
          \E i \in 1..Len(histories') :
              /\ histories'[i].ID = h.ID
              /\ \A j \in 1..Len(histories') : histories'[j].ID = h.ID => j = i
              /\ histories'[i].State = "CLOSED"
              /\ histories'[i].StartTime = h.StartTime
              /\ histories'[i].Messages = h.Messages]_vars

\* A call that recorded a message has closed, and the only SaveHistory since the last
\* Clean is its closing one: the Clean ran while the call was OPEN.
C36_Witness ==
    /\ pc = "returned"
    /\ Len(saveLog) = 1 /\ saveLog[1].State = "CLOSED"
    /\ Len(histories) = 1
    /\ histories[1].State = "CLOSED" /\ histories[1].ID = CallID
    /\ histories[1].Messages # <<>>
    /\ histories[1].StartTime = h.StartTime

\* The handler is on the mock path, past the mock lookup.
OnMockPath ==
    /\ ~crashed
    /\ hl.mc # None /\ hl.methodDescriptor # None
    /\ pc \notin {"idle", "getMethodDescriptor", "getMock"}

\* What the handler did on the stream, in order, a failed SendHeader or SendMsg counted
\* as the step it attempted and the client's cancellation left out.
StepsTaken ==
    LET own == SelectSeq(stream.trace, LAMBDA e : e # "cancel")
    IN [k \in 1..Len(own) |-> CASE own[k] = "header-failed" -> "header"
                                [] own[k] = "send-failed" -> "send"
                                [] OTHER -> own[k]]

\* The steps of the mock path for a MockConfig.
StepsOf(mc) ==
    <<"recv">>
    \o (IF mc.DelayMs > 0 THEN <<"slept">> ELSE <<>>)
    \o (IF mc.Headers # {} THEN <<"header">> ELSE <<>>)
    \o (IF IsZero(mc.GrpcStatus) THEN <<"send">> ELSE <<>>)

\* The steps taken are the first steps of the mock path, in its order.
C37_InOrder == OnMockPath => IsPrefix(StepsTaken, StepsOf(hl.mc[1]))

\* A call that took every step without a failure ended with the configured status, its
\* headers sent before, or with the outcome of its one SendMsg.
C37_HeadersBeforeStatus ==
    (/\ OnMockPath /\ Ended
     /\ StepsTaken = StepsOf(hl.mc[1])
     /\ ~Occurs(stream.trace, "header-failed")) =>
        /\ hl.mc[1].Headers # {} => stream.header = Some(hl.mc[1].Headers)
        /\ hl.mc[1].Headers = {} => stream.header = None
        /\ ~IsZero(hl.mc[1].GrpcStatus) =>
              /\ ret = StatusErrorf(CodeOf(hl.mc[1].GrpcStatus), hl.mc[1].ErrorString)
              /\ stream.msgs = <<>>
        /\ IsZero(hl.mc[1].GrpcStatus) => Len(stream.msgs) <= 1

\* A call whose request was not received ended with an error before any delay, header
\* or response.
C37_ReceiveFirst ==
    (OnMockPath /\ Ended /\ stream.recvd = <<>>) =>
        /\ ret # NoErr
        /\ StepsTaken = <<>>
        /\ stream.header = None /\ stream.msgs = <<>>

PumpsRunning ==
    (IF px.c2t \in {"recv", "send"} THEN 1 ELSE 0) + (IF px.t2c \in {"recv", "send"} THEN 1 ELSE 0)

\* The channel has room for the signal of every pump that is still running.
C38_RoomForSignals == Len(px.errCh) + PumpsRunning <= ErrChCapacity

\* A pump that stopped stays stopped, and a step puts a signal on the channel exactly
\* when one pump stops in it, and one signal only.
C38_OneSignalEach ==
    [][LET stopC == px.c2t # "done" /\ px'.c2t = "done"
           stopT == px.t2c # "done" /\ px'.t2c = "done"
       IN /\ px.c2t = "done" => px'.c2t = "done"
          /\ px.t2c = "done" => px'.t2c = "done"
          /\ ~(stopC /\ stopT)
          /\ Len(px'.errCh) <= Len(px.errCh) + 1
          /\ (Len(px'.errCh) = Len(px.errCh) + 1) <=> (stopC \/ stopT)]_vars

\* C38: each of the two proxy pumps sends exactly one signal on the signalling channel
\* and then stops, and no pump ever blocks on that send, also when Handle has
\* returned after the first signal and nobody receives the second.
C38_Signalling == []C38_RoomForSignals /\ C38_OneSignalEach

\* Handle returned on a first genuine error, the call is closed, and the other pump
\* has put its signal on the channel, where it stays.
C38_Witness ==
    /\ pc = "returned"
    /\ px.state = "done"
    /\ px.c2t = "done" /\ px.t2c = "done"
    /\ px.errCh # <<>>

\* Both pumps of the call were started.
PumpsStarted == px.c2t # "off" /\ px.t2c # "off"
PumpsStopped == px.c2t = "done" /\ px.t2c = "done"

\* The client disconnects while Handle waits for its pumps: both pumps stop and Handle
\* returns.
C39_AfterDisconnect ==
    (PumpsStarted /\ stream.ctxDone) ~> (PumpsStopped /\ px.state = "done")

\* Handle has returned, on a first genuine error too: the pump that was still running
\* stops.
C39_AfterReturn ==
    (PumpsStarted /\ px.state = "done") ~> PumpsStopped

\* C39: when the client disconnects during a proxied call, both proxy pumps eventually
\* terminate and Handle eventually returns; and after Handle has returned early on a
\* first genuine error, the remaining pump eventually terminates.
C39_PumpsTerminate == C39_AfterDisconnect /\ C39_AfterReturn

\* The client cancelled a proxied call whose pumps were running, Handle returned the
\* cancellation, and both pumps have stopped.
C39_Witness ==
    /\ pc = "returned"
    /\ Occurs(stream.trace, "cancel")
    /\ PumpsStopped /\ px.state = "done"
    /\ px.c2tEnd = "ctx"
    /\ ret.kind = "status" /\ ret.code = Codes.Canceled

\* C40: a /protos/register/json or /protos/ingest/json request that is rejected with
\* 400 because one of its files has an empty filename or an empty content leaves the
\* registry's sources unchanged: no file of the rejected request is ingested.
C40_RejectedIngestsNothing ==
    [][(/\ hr' # hr
        /\ hr'[1].status = 400
        /\ hr'[1].msg = "filename and content required for all files") =>
          /\ protoFiles' = protoFiles
          /\ protoFileNames' = protoFileNames]_vars
====
